---- MODULE Spec2Model ----
(***************************************************************************)
(* Model of ophyd/controls/positioner.py: the positioner state machine     *)
(* (Positioner, EpicsMotor, PVPositioner) and the move-status future       *)
(* (MoveStatus).  One application thread calls move() and stop(); one      *)
(* notification thread delivers remote-value changes and write             *)
(* acknowledgements.  In Spec every handler runs to completion and the     *)
(* application thread yields only where the code blocks (a blocking put,   *)
(* a sleep of a polling loop).                                             *)
(***************************************************************************)
EXTENDS Integers, Sequences, FiniteSets

VARIABLES
    cfg,              \* constructor arguments of the positioner (never change)
    _started_moving,  \* Positioner._started_moving
    _moving,          \* Positioner._moving
    _position,        \* Positioner._position
    dsig,             \* value of the done signal (PVPositioner._done, EpicsMotor DMOV)
    movn,             \* value of the EpicsMotor MOVN field (read live by moving)
    subs,             \* subscribers of _SUB_REQ_DONE, in registration order
    status,           \* the MoveStatus futures created so far (held: the caller keeps it)
    acks,             \* non-blocking puts whose callback has not fired yet
    apc,              \* where the application thread is
    npc,              \* where the notification thread is (SpecRace; "idle" in Spec)
    op,               \* the last step taken
    out,              \* dispatches, writes and raised error of the last step, in order
    unresolved_at_move, \* futures that were unresolved when the last move() was called
    scen,             \* progress through the scenario D=1, R=5, D=0 from construction
    timeout,          \* timeout argument of the blocking move() under way (0 when none is)
    elapsed,          \* polling sleeps since the blocking move() under way was called
    done_seen,        \* the done signal changed since that move() was called
    _limits,          \* PVPositioner._limits, the limits argument of the constructor
    sp_limits,        \* limits of the setpoint signal (control limits of its PV)
    target,           \* position argument of the call the last step made (0: none);
                      \* in SpecEcho the value the last notification carried
    phase,            \* "new" before __init__ runs, then "built" or "failed"
    setpoint,         \* the setpoint (EpicsMotor: record) argument is given
    last_readback,    \* value carried by the latest SUB_READBACK dispatch (-1: none yet)
    _trajectory,      \* Positioner._trajectory: set (not None) and the points left in it
    _followed,        \* Positioner._followed
    given,            \* the sequence passed to the latest set_trajectory()
    nreads,           \* reads of next_pos since the latest set_trajectory()
    ret,              \* what next_pos returned in the last step (-1: None, -2: not read)
    wmp,              \* a FunctionProxy: its target, method, remove_cb and quiet
    referent,         \* what the proxy refers to: its kind, the strong references
                      \* to the function or to the method's instance, the function;
                      \* whether subscribe(weak=True) made the proxy, whether the
                      \* instance was registered with the session (both constant)
    removed,          \* calls of the proxy's remove_cb so far
    sig_subs,         \* subscribers of a signal's event kind (weakly held: proxies)
    fut,              \* a MoveStatus with its target (SpecErr)
    error,            \* the value MoveStatus.error returned in the last step, if read
    _registry,        \* SessionManager._registry['positioners'], in the order of names:
                      \* whether each is moving and whether its stop() can run
    _run_engine,      \* SessionManager._run_engine: "None", or the run "running" / "stopped"
    stop_calls,       \* for each registered positioner, the calls of stop() in the last step
    exited            \* SessionManager._ipy_exit was called

vars == <<cfg, _started_moving, _moving, _position, dsig, movn, subs, status,
          acks, apc, npc, op, out, unresolved_at_move, scen, timeout, elapsed,
          done_seen, _limits, sp_limits, target, phase, setpoint, last_readback,
          _trajectory, _followed, given, nreads, ret,
          wmp, referent, removed, sig_subs,
          fut, error, _registry, _run_engine, stop_calls, exited>>

\* The variables of a MoveStatus read for its error.
errvars == <<fut, error>>

\* The variables of the session manager.
sesvars == <<_registry, _run_engine, stop_calls, exited>>

\* The variables of the weak-reference machinery.
gcvars == <<wmp, referent, removed, sig_subs>>

\* Bound on the number of non-blocking move() calls (futures) of one behaviour.
MaxStatus == 2

\* Targets of move(), and the values the readback takes.
PosVals == {3, 5}
ReadbackVals == {0, 5}

\* Values of the timeout argument of move(wait=True), in polling sleeps.
TimeoutVals == {0, 1}

\* Limits of a positioner with limits=None.
NoLimits == <<0, 0>>

Range(f) == {f[i] : i \in DOMAIN f}

Count(seq, e) == Cardinality({i \in DOMAIN seq : seq[i] = e})

\* Index of the first occurrence of e in seq, Len(seq) + 1 when there is none.
First(seq, e) ==
    IF e \in Range(seq)
    THEN CHOOSE i \in DOMAIN seq : seq[i] = e /\ \A j \in 1..(i - 1) : seq[j] # e
    ELSE Len(seq) + 1

(***************************************************************************)
(* Construction.                                                           *)
(***************************************************************************)

\* The soft positioner has no signals at all.
SoftCfg ==
    [cls |-> "Positioner", done |-> FALSE, done_val |-> 0, put_complete |-> FALSE,
     actuate |-> FALSE, stop |-> FALSE, readback |-> FALSE]

\* EpicsMotor.__init__ always creates RBV, VAL, MOVN, DMOV and STOP.
MotorCfg ==
    [cls |-> "EpicsMotor", done |-> TRUE, done_val |-> 1, put_complete |-> FALSE,
     actuate |-> FALSE, stop |-> TRUE, readback |-> TRUE]

\* PVPositioner.__init__: every optional signal is present or not; without a
\* done signal _done_val is False (0).
PVCfgs ==
    {c \in [cls : {"PVPositioner"}, done : BOOLEAN, done_val : {0, 1},
            put_complete : BOOLEAN, actuate : BOOLEAN, stop : BOOLEAN,
            readback : BOOLEAN] :
        ~c.done => c.done_val = 0}

Configs == {SoftCfg, MotorCfg} \cup PVCfgs

IsPV == cfg.cls = "PVPositioner"
IsMotor == cfg.cls = "EpicsMotor"
IsSoft == cfg.cls = "Positioner"

\* MoveStatus.__init__; finish_pos None is -1, calls counts the runs of _finished.
MoveStatus ==
    [held |-> TRUE, done |-> FALSE, success |-> FALSE, finish_pos |-> -1, calls |-> 0]

\* A future the caller has discarded and the positioner no longer refers to.
Discarded ==
    [held |-> FALSE, done |-> TRUE, success |-> FALSE, finish_pos |-> -1, calls |-> 0]

\* The state of a positioner after construction, whatever its arguments.
Constructed ==
    /\ _started_moving = FALSE
    /\ _moving = FALSE
    /\ _position = 0
    /\ dsig = cfg.done_val
    /\ movn = FALSE
    /\ subs = <<>>
    /\ status = <<>>
    /\ acks = {}
    /\ apc = "idle"
    /\ npc = "idle"
    /\ op = "init"
    /\ out = <<>>
    /\ unresolved_at_move = {}
    /\ scen = 0
    /\ timeout = 0
    /\ elapsed = 0
    /\ done_seen = FALSE
    /\ target = 0
    /\ _trajectory = [set |-> FALSE, rest |-> <<>>]
    /\ _followed = <<>>
    /\ given = <<>>
    /\ nreads = 0
    /\ ret = -2

\* No FunctionProxy is under observation.
NoProxy ==
    /\ wmp = [target |-> "None", method |-> "None", remove_cb |-> "None",
              quiet |-> TRUE]
    /\ referent = [kind |-> "function", refs |-> {}, fn |-> FALSE,
                   subscribed |-> FALSE, registered |-> FALSE]
    /\ removed = 0
    /\ sig_subs = <<>>

\* No MoveStatus is read for its error.
NoError ==
    /\ fut = [target |-> 0, done |-> FALSE, success |-> FALSE, finish_pos |-> -1,
              calls |-> 0]
    /\ error = [read |-> FALSE, value |-> 0]

\* No session manager is under observation.
NoSession ==
    /\ _registry = <<>>
    /\ _run_engine = "None"
    /\ stop_calls = <<>>
    /\ exited = FALSE

\* __init__ of EpicsMotor, and of a PVPositioner with a readback, has called
\* _set_position with the readback's value; the other constructors have not.
ReadbackAtConstruction ==
    IF cfg.readback THEN 0 ELSE -1

Init ==
    /\ cfg \in Configs
    /\ _limits = NoLimits
    /\ sp_limits = NoLimits
    /\ phase = "built"
    /\ setpoint = TRUE
    /\ Constructed
    /\ NoProxy
    /\ NoError
    /\ NoSession
    /\ last_readback = ReadbackAtConstruction

(***************************************************************************)
(* The object state a handler works on, and the operators that transform   *)
(* it; an action threads the state through the calls the code makes.       *)
(***************************************************************************)

Self ==
    [_started_moving |-> _started_moving, _moving |-> _moving,
     _position |-> _position, subs |-> subs, status |-> status,
     acks |-> acks, last_readback |-> last_readback,
     _trajectory |-> _trajectory, _followed |-> _followed, given |-> given,
     nreads |-> nreads, ret |-> -2, out |-> <<>>]

\* The state at the start of an application call: the caller has discarded the
\* futures of earlier calls that are resolved and no longer subscribed.
Caller ==
    [Self EXCEPT !.status =
        [i \in DOMAIN status |->
            IF status[i].done /\ i \notin {subs_i.id : subs_i \in Range(subs)}
            THEN Discarded
            ELSE status[i]]]

Emit(s, e) == [s EXCEPT !.out = Append(@, e)]

MoveStatus_finished(st, success, position) ==
    [st EXCEPT !.done = TRUE, !.success = success, !.finish_pos = position,
               !.calls = @ + 1]

\* Dispatch of an event kind that has only external observers.
_run_subs(s, sub_type) == Emit(s, sub_type)

\* The loop of the dispatch over the subscribers, defined below with the
\* callbacks it calls (a moved_cb may call move()).
RECURSIVE _run_cbs(_, _, _)

\* Dispatch of _SUB_REQ_DONE to the subscribers registered when it begins.
_run_subs_req_done(s, success) ==
    _run_cbs(Emit(s, IF success THEN "REQ_DONE_TRUE" ELSE "REQ_DONE_FALSE"),
             s.subs, success)

_reset_sub(s) == [s EXCEPT !.subs = <<>>]

subscribe(s, cb, id) == [s EXCEPT !.subs = Append(@, [cb |-> cb, id |-> id])]

\* _done_moving leaving the request-done subscribers registered.
_done_moving_keeps_subs(s) ==
    _run_subs_req_done(_run_subs(s, "SUB_DONE"), TRUE)

_done_moving(s) ==
    _reset_sub(_run_subs_req_done(_run_subs(s, "SUB_DONE"), TRUE))

\* Positioner_stop dispatching what _done_moving dispatches.
Positioner_stop_as_done(s) == _done_moving(s)

Positioner_stop(s) == _reset_sub(_run_subs_req_done(s, FALSE))

\* Dispatch of SUB_READBACK, which carries a value.
_run_subs_readback(s, value) ==
    [_run_subs(s, "SUB_READBACK") EXCEPT !.last_readback = value]

\* _set_position storing the value without dispatching it.
_set_position_silent(s, value) == [s EXCEPT !._position = value]

_set_position(s, value) ==
    _run_subs_readback([s EXCEPT !._position = value], value)

\* Positioner.move up to the wait/no-wait branch.
Positioner_move_enter(s) ==
    LET s1 == _reset_sub(_run_subs_req_done(s, FALSE))
    IN IF IsSoft
       THEN [s1 EXCEPT !._started_moving = TRUE, !._moving = FALSE]
       ELSE s1

\* Positioner_move_nowait subscribing the caller's moved_cb in place of the
\* future's _finished.
Positioner_move_nowait_cb_only(s, position, moved_cb) ==
    LET s1 == [s EXCEPT !.status = Append(@, MoveStatus)]
    IN IF moved_cb # "none"
       THEN subscribe(s1, moved_cb, Len(s1.status))
       ELSE subscribe(s1, "status", Len(s1.status))

\* Positioner.move, the no-wait branch: moved_cb, if given, is subscribed, then
\* the future is created and its _finished subscribed.
Positioner_move_nowait(s, position, moved_cb) ==
    LET id == Len(s.status) + 1
        s1 == IF moved_cb # "none" THEN subscribe(s, moved_cb, id) ELSE s
        s2 == [s1 EXCEPT !.status = Append(@, MoveStatus)]
    IN subscribe(s2, "status", id)

\* Positioner_move_soft_tail announcing the end of the motion before the position.
Positioner_move_soft_tail_done_first(s, position) ==
    LET s1 == _done_moving(s)
    IN _set_position(s1, position)

\* Positioner.move, the soft positioner's tail.
Positioner_move_soft_tail(s, position) ==
    _done_moving(_set_position(s, position))

\* _move_changed_head with the two operands of the started test exchanged.
_move_changed_head_swapped(s, now_moving) ==
    LET was_moving == s._moving
        started == IF ~s._started_moving THEN was_moving /\ ~now_moving ELSE FALSE
        s1 == [s EXCEPT !._moving = now_moving,
                        !._started_moving = IF ~@ THEN started ELSE @]
    IN IF started THEN _run_subs(s1, "SUB_START") ELSE s1

\* _move_changed of both classes up to the test for the finished transition;
\* now_moving is the new value of _moving.
_move_changed_head(s, now_moving) ==
    LET was_moving == s._moving
        started == IF ~s._started_moving THEN ~was_moving /\ now_moving ELSE FALSE
        s1 == [s EXCEPT !._moving = now_moving,
                        !._started_moving = IF ~@ THEN started ELSE @]
    IN IF started THEN _run_subs(s1, "SUB_START") ELSE s1

\* PVPositioner_move_changed_done without the test of the put-completion mode.
PVPositioner_move_changed_done_any_mode(s, value) ==
    s._moving /\ ~(value # cfg.done_val)

\* Whether PVPositioner._move_changed goes on to call _done_moving.
PVPositioner_move_changed_done(s, value) ==
    ~cfg.put_complete /\ s._moving /\ ~(value # cfg.done_val)

PVPositioner_move_changed(s, value) ==
    LET s2 == _move_changed_head(s, value # cfg.done_val)
    IN IF PVPositioner_move_changed_done(s, value) THEN _done_moving(s2) ELSE s2

\* Whether EpicsMotor._move_changed goes on to call _done_moving.
EpicsMotor_move_changed_done(s, value) == s._moving /\ ~(value # 1)

EpicsMotor_move_changed(s, value) ==
    LET s2 == _move_changed_head(s, value # 1)
    IN IF EpicsMotor_move_changed_done(s, value) THEN _done_moving(s2) ELSE s2

\* The moving property of each class.
moving ==
    CASE IsSoft -> _moving
      [] IsMotor -> movn
      [] IsPV -> IF cfg.done THEN dsig # cfg.done_val ELSE _moving


(***************************************************************************)
(* Steps.                                                                  *)
(***************************************************************************)

Commit(s) ==
    /\ _started_moving' = s._started_moving
    /\ _moving' = s._moving
    /\ _position' = s._position
    /\ subs' = s.subs
    /\ status' = s.status
    /\ acks' = s.acks
    /\ last_readback' = s.last_readback
    /\ _trajectory' = s._trajectory
    /\ _followed' = s._followed
    /\ given' = s.given
    /\ nreads' = s.nreads
    /\ ret' = s.ret
    /\ out' = s.out

\* A step of the application thread.  kind: "move" (a move() call begins),
\* "cont" (a blocked move() call goes on), "stop" (a stop() call), "check"
\* (a check_value() call), "traj" (set_trajectory(), next_pos, a move_next()
\* that does not move); tmo and el are the timeout and the elapsed time of
\* the blocking move() that is under way after the step, if one is; position
\* is the argument of the call.
AppCommitT(s, name, kind, pc, ex, tmo, el, position) ==
    /\ Commit(IF ex = "none" THEN s ELSE Emit(s, ex))
    /\ op' = name
    /\ apc' = pc
    /\ unresolved_at_move' =
          IF kind = "move"
          THEN {i \in DOMAIN status : ~status[i].done}
          ELSE unresolved_at_move
    /\ scen' = -1
    /\ timeout' = (IF pc = "idle" THEN 0 ELSE tmo)
    /\ elapsed' = (IF pc = "idle" THEN 0 ELSE el)
    /\ done_seen' = (IF pc = "idle" \/ kind = "move" THEN FALSE ELSE done_seen)
    /\ target' = position
    /\ UNCHANGED <<cfg, dsig, movn, npc, _limits, sp_limits, phase, setpoint>>
    /\ UNCHANGED <<gcvars, errvars, sesvars>>

\* A step of the application thread during which no time passes.
AppCommit(s, name, kind, pc, ex) ==
    AppCommitT(s, name, kind, pc, ex, timeout, elapsed, 0)

\* A step of the notification thread; ev is the remote event it delivers.
NextScen(ev) ==
    CASE scen = 0 /\ ev = <<"D", 1>> -> 1
      [] scen = 1 /\ ev = <<"R", 5>> -> 2
      [] scen = 2 /\ ev = <<"D", 0>> -> 3
      [] OTHER -> -1

NotifyCommit(s, name, ev) ==
    /\ Commit(s)
    /\ op' = name
    /\ scen' = NextScen(ev)
    /\ done_seen' = (done_seen \/ (apc # "idle" /\ ev[1] = "D"))
    /\ target' = 0
    /\ UNCHANGED <<cfg, apc, npc, unresolved_at_move, timeout, elapsed,
                   _limits, sp_limits, phase, setpoint>>
    /\ UNCHANGED <<gcvars, errvars, sesvars>>

CanMove == apc = "idle"
CanMoveNowait == apc = "idle" /\ Len(status) < MaxStatus

\* The two wait loops of Positioner.move on a soft positioner, whose flags no
\* notification changes: a loop that is entered ends by its timeout error,
\* whatever the timeout.
Positioner_move_wait_soft(s) ==
    CASE ~s._started_moving -> "TimeoutError_no_motion"
      [] s._started_moving /\ s._moving -> "TimeoutError"
      [] OTHER -> "none"

\* Positioner.move of the un-subclassed (soft) positioner.
Positioner_move_from(s, position, wait, moved_cb) ==
    /\ IsSoft /\ (IF wait THEN CanMove ELSE CanMoveNowait)
    /\ LET s1 == Positioner_move_enter(s)
           s2 == IF wait THEN s1 ELSE Positioner_move_nowait(s1, position, moved_cb)
       IN IF wait /\ Positioner_move_wait_soft(s1) # "none"
          THEN AppCommitT(s1, "move_wait", "move", "idle",
                          Positioner_move_wait_soft(s1), 0, 0, position)
          ELSE AppCommitT(Positioner_move_soft_tail(s2, position),
                          IF wait THEN "move_wait" ELSE "move_nowait", "move", "idle",
                          "none", 0, 0, position)

Positioner_move(position, wait, moved_cb) ==
    Positioner_move_from(Caller, position, wait, moved_cb)

\* EpicsMotor.move: the setpoint is written first, Positioner.move follows.
EpicsMotor_move_from(s, position, wait, tmo, moved_cb) ==
    /\ IsMotor /\ (IF wait THEN CanMove ELSE CanMoveNowait)
    /\ LET s1 == [s EXCEPT !._started_moving = FALSE]
       IN IF wait
          THEN AppCommitT(Emit(s1, "put_setpoint_wait"), "move_wait", "move",
                          "motor_put", "none", tmo, 0, position)
          ELSE AppCommitT(Positioner_move_nowait(
                              Positioner_move_enter(Emit(s1, "put_setpoint")), position,
                              moved_cb),
                          "move_nowait", "move", "idle", "none", 0, 0, position)

EpicsMotor_move(position, wait, tmo, moved_cb) ==
    EpicsMotor_move_from(Caller, position, wait, tmo, moved_cb)

\* The blocking put of EpicsMotor.move returns; Positioner.move is entered.
EpicsMotor_put_done ==
    /\ apc = "motor_put"
    /\ AppCommit(Positioner_move_enter(Self), "put_done", "cont", "wait_start", "none")

\* The writes of _move_wait_pc and of _move_async.
PVPositioner_puts(s, last) ==
    IF cfg.actuate
    THEN Emit(Emit(s, "put_setpoint"), IF last = "wait" THEN "put_actuate_wait"
                                                          ELSE "put_actuate_cb")
    ELSE Emit(s, IF last = "wait" THEN "put_setpoint_wait" ELSE "put_setpoint_cb")

\* PVPositioner.move(wait=True) up to its first blocking put: _move_wait and,
\* in put-completion mode, the head of _move_wait_pc.
PVPositioner_move_wait(position, tmo) ==
    /\ IsPV /\ CanMove
    /\ LET s1 == [Caller EXCEPT !._started_moving = FALSE]
           s2 == IF ~cfg.done
                 THEN PVPositioner_move_changed(PVPositioner_move_changed(s1, 0), 1)
                 ELSE s1
       IN IF cfg.put_complete
          THEN AppCommitT(PVPositioner_puts(s2, "wait"), "move_wait", "move",
                          "pc_put", "none", tmo, 0, position)
          ELSE AppCommitT(Emit(s1, "put_setpoint_wait"), "move_wait", "move",
                          "put_sp", "none", tmo, 0, position)

\* _move_wait without put completion: the setpoint put returned.
PVPositioner_put_sp_done ==
    /\ apc = "put_sp"
    /\ IF cfg.actuate
       THEN AppCommit(Emit(Self, "put_actuate_wait"), "put_done", "cont",
                      "put_act", "none")
       ELSE AppCommit(Positioner_move_enter(Self), "put_done", "cont",
                      "wait_start", "none")

\* _move_wait without put completion: the actuate put returned.
PVPositioner_put_act_done ==
    /\ apc = "put_act"
    /\ AppCommit(Positioner_move_enter(Self), "put_done", "cont", "wait_start", "none")

\* PVPositioner_move_wait_pc_tail without the test of _moving.
PVPositioner_move_wait_pc_tail_started_only(s, name) ==
    IF s._started_moving
    THEN AppCommit(Positioner_move_enter(_done_moving(s)), name, "cont",
                   "wait_start", "none")
    ELSE AppCommit(s, name, "cont", "idle", "TimeoutError_no_motion_pc")

\* The tail of _move_wait_pc, then Positioner.move(wait=True) when it did not raise.
PVPositioner_move_wait_pc_tail(s, name) ==
    IF s._started_moving /\ ~s._moving
    THEN AppCommit(Positioner_move_enter(_done_moving(s)), name, "cont",
                   "wait_start", "none")
    ELSE AppCommit(s, name, "cont", "idle",
                   IF s._started_moving THEN "TimeoutError_still_moving_pc"
                                        ELSE "TimeoutError_no_motion_pc")

\* _move_wait_pc: the acknowledged put returned.
PVPositioner_pc_put_done ==
    /\ apc = "pc_put"
    /\ IF ~cfg.done
       THEN PVPositioner_move_wait_pc_tail(PVPositioner_move_changed(Self, 0), "put_done")
       ELSE AppCommit(Self, "put_done", "cont", "settle", "none")

\* _move_wait_pc with a done signal: the settle-time sleep is over (the
\* positioner is constructed with settle_time=0, the sleep takes no time).
PVPositioner_settle_done ==
    /\ apc = "settle"
    /\ PVPositioner_move_wait_pc_tail(Self, "settle_done")

\* Positioner.move(wait=True): the loop waiting for _started_moving ends.
Positioner_move_started ==
    /\ apc = "wait_start"
    /\ _started_moving
    /\ AppCommit(Self, "poll_started", "cont", "wait_done", "none")

\* Positioner.move(wait=True): the loop waiting for moving to be false ends.
Positioner_move_finished ==
    /\ apc = "wait_done"
    /\ ~moving
    /\ AppCommit(Self, "poll_finished", "cont", "idle", "none")

\* check_timeout() of Positioner.move after the polling sleep that makes the
\* elapsed time el.
check_timeout(el) == el > timeout

\* Positioner.move(wait=True): one turn of either loop, the sleep and the call
\* of check_timeout().
Positioner_move_poll ==
    /\ \/ apc = "wait_start" /\ ~_started_moving
       \/ apc = "wait_done" /\ moving
    /\ IF check_timeout(elapsed + 1)
       THEN AppCommit(Self, "timeout", "cont", "idle",
                      IF apc = "wait_start" THEN "TimeoutError_no_motion"
                                            ELSE "TimeoutError")
       ELSE AppCommitT(Self, "poll", "cont", apc, "none", timeout, elapsed + 1, 0)

\* A blocking put raises instead of returning.  A put that returns is
\* acknowledged at once: time passes only in the sleeps of the polling loops.
put_failed ==
    /\ apc \in {"motor_put", "put_sp", "put_act", "pc_put"}
    /\ AppCommit(Self, "put_failed", "cont", "idle", "WriteError")

\* _move_async.
PVPositioner_move_async(s, token) ==
    LET s1 == [s EXCEPT !._started_moving = FALSE]
        s2 == IF ~cfg.done /\ cfg.put_complete
              THEN PVPositioner_move_changed(s1, 1)
              ELSE s1
        s3 == PVPositioner_puts(s2, "cb")
    IN [s3 EXCEPT !.acks = @ \cup {token}]

\* _move_async when its first put raises: nothing is written, the exception
\* leaves move() and the caller never receives the future.
PVPositioner_move_async_failed(s, token) ==
    LET s1 == [s EXCEPT !._started_moving = FALSE]
        s2 == IF ~cfg.done /\ cfg.put_complete
              THEN PVPositioner_move_changed(s1, 1)
              ELSE s1
    IN [s2 EXCEPT !.status[token].held = FALSE]

\* move(3, wait=False, moved_cb=...) of the class, called by a moved_cb from
\* inside the dispatch of _SUB_REQ_DONE.
callback_move(s) ==
    CASE IsSoft ->
           Positioner_move_soft_tail(
               Positioner_move_nowait(Positioner_move_enter(s), 3, "moved_cb"), 3)
      [] IsMotor ->
           Positioner_move_nowait(
               Positioner_move_enter(
                   Emit([s EXCEPT !._started_moving = FALSE], "put_setpoint")),
               3, "moved_cb")
      [] IsPV ->
           LET s1 == Positioner_move_nowait(Positioner_move_enter(s), 3, "moved_cb")
           IN PVPositioner_move_async(s1, Len(s1.status))

\* One subscriber of _SUB_REQ_DONE is called: a future's _finished, or the
\* caller's moved_cb.  The dispatcher catches and logs the exception of a
\* moved_cb that raises; "moved_cb_moves" is a moved_cb that starts the next
\* non-blocking move when it is told of a success (while futures are left).
_run_sub(s, sub, success) ==
    CASE sub.cb = "status" ->
           [s EXCEPT !.status[sub.id] =
               MoveStatus_finished(@, success, s._position)]
      [] sub.cb = "moved_cb" -> Emit(s, "moved_cb")
      [] sub.cb = "moved_cb_raises" -> Emit(Emit(s, "moved_cb"), "exception_logged")
      [] sub.cb = "moved_cb_moves" ->
           IF success /\ Len(s.status) < MaxStatus
           THEN callback_move(Emit(s, "moved_cb"))
           ELSE Emit(s, "moved_cb")

\* The subscribers registered when the dispatch began are called in the order
\* of their registration.
_run_cbs(s, cbs, success) ==
    IF cbs = <<>>
    THEN s
    ELSE _run_cbs(_run_sub(s, Head(cbs), success), Tail(cbs), success)

\* PVPositioner.move(wait=False); rejected: the first put of _move_async raises.
PVPositioner_move_nowait_from(s, position, rejected, moved_cb) ==
    /\ IsPV /\ CanMoveNowait
    /\ LET s1 == Positioner_move_nowait(Positioner_move_enter(s), position,
                                        moved_cb)
       IN IF rejected
          THEN AppCommitT(PVPositioner_move_async_failed(s1, Len(s1.status)),
                          "move_nowait", "move", "idle", "WriteError", 0, 0, position)
          ELSE AppCommitT(PVPositioner_move_async(s1, Len(s1.status)), "move_nowait",
                          "move", "idle", "none", 0, 0, position)

PVPositioner_move_nowait(position, rejected, moved_cb) ==
    PVPositioner_move_nowait_from(Caller, position, rejected, moved_cb)

\* stop without the test for a missing stop signal.
stop_unguarded ==
    /\ apc = "idle"
    /\ AppCommit(Positioner_stop(IF IsSoft THEN Caller ELSE Emit(Caller, "put_stop")),
                 "stop", "stop", "idle", "none")

\* stop() of each class; "put_stop" is _stop.put(_stop_val, wait=False).
stop ==
    /\ apc = "idle"
    /\ CASE IsSoft -> AppCommit(Positioner_stop(Caller), "stop", "stop", "idle", "none")
         [] IsMotor -> AppCommit(Positioner_stop(Emit(Caller, "put_stop")), "stop",
                                 "stop", "idle", "none")
         [] IsPV ->
              IF ~cfg.stop
              THEN AppCommit(Caller, "stop", "stop", "idle", "RuntimeError")
              ELSE AppCommit(Positioner_stop(Emit(Caller, "put_stop")), "stop", "stop",
                             "idle", "none")

\* The done signal changes; its subscriber _move_changed runs.
done_changed(value) ==
    /\ cfg.done
    /\ value # dsig
    /\ dsig' = value
    /\ UNCHANGED movn
    /\ NotifyCommit(IF IsMotor THEN EpicsMotor_move_changed(Self, value)
                               ELSE PVPositioner_move_changed(Self, value),
                    "done_changed", <<"D", value>>)

\* The motor record's MOVN field changes (nothing subscribes to it).
movn_changed ==
    /\ IsMotor
    /\ movn' = ~movn
    /\ UNCHANGED dsig
    /\ NotifyCommit(Self, "movn_changed", <<"M", 0>>)

\* The readback (or, without one, the setpoint) changes; _pos_changed runs.
pos_changed(value) ==
    /\ ~IsSoft
    /\ value # _position
    /\ UNCHANGED <<dsig, movn>>
    /\ NotifyCommit(_set_position(Self, value), "pos_changed", <<"R", value>>)

\* done_moving_cb with the test of the put-completion mode negated.
done_moving_cb_negated(s) == IF ~cfg.put_complete THEN _done_moving(s) ELSE s

\* _move_async.done_moving, the callback of a non-blocking put.
done_moving_cb(s) == IF cfg.put_complete THEN _done_moving(s) ELSE s

put_callback(token) ==
    /\ token \in acks
    /\ UNCHANGED <<dsig, movn>>
    /\ NotifyCommit(done_moving_cb([Self EXCEPT !.acks = @ \ {token}]),
                    "put_callback", <<"A", token>>)

Next ==
    \/ \E p \in PosVals, w \in BOOLEAN : Positioner_move(p, w, "none")
    \/ \E p \in PosVals, w \in BOOLEAN, tmo \in TimeoutVals : EpicsMotor_move(p, w, tmo, "none")
    \/ EpicsMotor_put_done
    \/ \E p \in PosVals, tmo \in TimeoutVals : PVPositioner_move_wait(p, tmo)
    \/ PVPositioner_put_sp_done
    \/ PVPositioner_put_act_done
    \/ PVPositioner_pc_put_done
    \/ PVPositioner_settle_done
    \/ Positioner_move_started
    \/ Positioner_move_finished
    \/ Positioner_move_poll
    \/ put_failed
    \/ \E p \in PosVals, r \in BOOLEAN : PVPositioner_move_nowait(p, r, "none")
    \/ stop
    \/ \E v \in {0, 1} : done_changed(v)
    \/ movn_changed
    \/ \E v \in ReadbackVals : pos_changed(v)
    \/ \E t \in 1..MaxStatus : put_callback(t)

Spec == Init /\ [][Next]_vars

(***************************************************************************)
(* SpecLimits: a PVPositioner constructed with limits, whose setpoint       *)
(* signal has limits of its own; the application also calls check_value().  *)
(* Only the application thread runs: the device sends no notification.      *)
(***************************************************************************)

\* Limits given to the constructor, and limits the setpoint signal can have.
LimitVals == {<<1, 4>>}
SignalLimitVals == {<<1, 4>>, <<0, 10>>}

\* Arguments of check_value().
CheckVals == {3, 5}

\* The limits property of PVPositioner.
limits == _limits

\* check_value of a signal: whether it raises for value, given its limits.
Signal_check_value(value, lim) == value < lim[1] \/ value > lim[2]

\* PVPositioner.check_value.
PVPositioner_check_value(pos) ==
    /\ IsPV
    /\ apc = "idle"
    /\ AppCommitT(Self, "check_value", "check", "idle",
                  IF Signal_check_value(pos, sp_limits) THEN "ValueError" ELSE "none",
                  0, 0, pos)

InitLimits ==
    /\ phase = "built"
    /\ setpoint = TRUE
    /\ cfg \in PVCfgs
    /\ _limits \in LimitVals
    /\ sp_limits \in SignalLimitVals
    /\ Constructed
    /\ NoProxy
    /\ NoError
    /\ NoSession
    /\ last_readback = ReadbackAtConstruction

NextLimits ==
    \/ \E x \in CheckVals : PVPositioner_check_value(x)
    \/ \E p \in PosVals, tmo \in TimeoutVals : PVPositioner_move_wait(p, tmo)
    \/ PVPositioner_put_sp_done
    \/ PVPositioner_put_act_done
    \/ PVPositioner_pc_put_done
    \/ PVPositioner_settle_done
    \/ Positioner_move_started
    \/ Positioner_move_finished
    \/ Positioner_move_poll
    \/ put_failed
    \/ \E p \in PosVals, r \in BOOLEAN : PVPositioner_move_nowait(p, r, "none")
    \/ stop

SpecLimits == InitLimits /\ [][NextLimits]_vars

(***************************************************************************)
(* SpecCtor: the constructors.  The state starts before __init__ runs,     *)
(* with the arguments chosen; the fields have their values-to-be.          *)
(***************************************************************************)

CtorCommit(s, ph) ==
    /\ Commit(s)
    /\ op' = "__init__"
    /\ phase' = ph
    /\ UNCHANGED <<cfg, setpoint, dsig, movn, apc, npc, unresolved_at_move, scen,
                   timeout, elapsed, done_seen, _limits, sp_limits, target>>
    /\ UNCHANGED <<gcvars, errvars, sesvars>>

\* add_signal(EpicsSignal(...)) for one signal.
add_signal(s, alias) == Emit(s, alias)

\* PVPositioner_init_body testing for the setpoint after creating its signal.
PVPositioner_init_late_check(s, rbv) ==
    LET s1 == add_signal(s, "add_signal_setpoint")
    IN IF ~setpoint THEN Emit(s1, "ValueError") ELSE s1

\* PVPositioner.__init__ on the object state s; rbv is the readback's value.
PVPositioner_init_body(s, rbv) ==
    IF ~setpoint
    THEN Emit(s, "ValueError")
    ELSE LET s1 == add_signal(s, "add_signal_setpoint")
             s2 == IF cfg.readback
                   THEN _set_position(
                            Emit(add_signal(s1, "add_signal_readback"),
                                 "subscribe_readback"), rbv)
                   ELSE Emit(s1, "subscribe_setpoint")
             s3 == IF cfg.actuate THEN add_signal(s2, "add_signal_actuate") ELSE s2
             s4 == IF cfg.stop THEN add_signal(s3, "add_signal_stop") ELSE s3
             s5 == IF ~cfg.done /\ ~cfg.put_complete THEN Emit(s4, "warning") ELSE s4
         IN IF cfg.done
            THEN Emit(add_signal(s5, "add_signal_done"), "subscribe_done")
            ELSE s5

\* The constructor raised.
Raised(s) == s.out # <<>> /\ s.out[Len(s.out)] = "ValueError"

PVPositioner_init(rbv) ==
    /\ IsPV /\ phase = "new"
    /\ LET s == PVPositioner_init_body(Self, rbv)
       IN CtorCommit(s, IF Raised(s) THEN "failed" ELSE "built")

\* EpicsMotor.__init__.
EpicsMotor_init_body(s, rbv) ==
    IF ~setpoint
    THEN Emit(s, "ValueError")
    ELSE LET s1 == add_signal(add_signal(add_signal(add_signal(add_signal(add_signal(
                       s, "add_signal_readback"), "add_signal_setpoint"),
                       "add_signal_egu"), "add_signal_movn"), "add_signal_done"),
                       "add_signal_stop")
             s2 == [s1 EXCEPT !._moving = movn]
         IN _set_position(Emit(Emit(s2, "subscribe_done"), "subscribe_readback"), rbv)

EpicsMotor_init(rbv) ==
    /\ IsMotor /\ phase = "new"
    /\ LET s == EpicsMotor_init_body(Self, rbv)
       IN CtorCommit(s, IF Raised(s) THEN "failed" ELSE "built")

\* Positioner.__init__ creates no signal and cannot fail.
Positioner_init ==
    /\ IsSoft /\ phase = "new"
    /\ CtorCommit(Self, "built")

InitCtor ==
    /\ cfg \in Configs
    /\ setpoint \in BOOLEAN
    /\ phase = "new"
    /\ _limits = NoLimits
    /\ sp_limits = NoLimits
    /\ Constructed
    /\ NoProxy
    /\ NoError
    /\ NoSession
    /\ last_readback = -1

NextCtor ==
    \/ \E rbv \in ReadbackVals : PVPositioner_init(rbv)
    \/ \E rbv \in ReadbackVals : EpicsMotor_init(rbv)
    \/ Positioner_init

SpecCtor == InitCtor /\ [][NextCtor]_vars

(***************************************************************************)
(* SpecRace: the two threads interleaved between the statements of stop()  *)
(* and of _done_moving(); move(wait=False) and the head of each handler    *)
(* run without interruption, which is one of the schedules.                *)
(***************************************************************************)

RaceCommit(s, name, pc, nc) ==
    /\ Commit(s)
    /\ op' = name
    /\ apc' = pc
    /\ npc' = nc
    /\ scen' = -1
    /\ target' = 0
    /\ UNCHANGED <<cfg, unresolved_at_move, timeout, elapsed, done_seen,
                   _limits, sp_limits, phase, setpoint>>
    /\ UNCHANGED <<gcvars, errvars, sesvars>>

\* stop(): the stop signal is written and _SUB_REQ_DONE dispatched with success=False.
stop_run_subs ==
    /\ apc = "idle"
    /\ IsPV => cfg.stop
    /\ UNCHANGED <<dsig, movn>>
    /\ RaceCommit(_run_subs_req_done(IF IsSoft THEN Caller ELSE Emit(Caller, "put_stop"),
                                     FALSE),
                  "stop", "stop_reset", npc)

\* stop(): _reset_sub(_SUB_REQ_DONE).
stop_reset_sub ==
    /\ apc = "stop_reset"
    /\ UNCHANGED <<dsig, movn>>
    /\ RaceCommit(_reset_sub(Self), "stop_reset", "idle", npc)

\* The done signal changes: _move_changed up to its call of _done_moving.
race_done_changed(value) ==
    /\ npc = "idle"
    /\ cfg.done
    /\ value # dsig
    /\ dsig' = value
    /\ UNCHANGED movn
    /\ IF IsMotor
       THEN RaceCommit(_move_changed_head(Self, value # 1), "done_changed", apc,
                       IF EpicsMotor_move_changed_done(Self, value)
                       THEN "done_moving" ELSE "idle")
       ELSE RaceCommit(_move_changed_head(Self, value # cfg.done_val), "done_changed",
                       apc,
                       IF PVPositioner_move_changed_done(Self, value)
                       THEN "done_moving" ELSE "idle")

\* The callback of a non-blocking put fires: done_moving up to _done_moving.
race_put_callback(token) ==
    /\ npc = "idle"
    /\ token \in acks
    /\ UNCHANGED <<dsig, movn>>
    /\ RaceCommit([Self EXCEPT !.acks = @ \ {token}], "put_callback", apc,
                  IF cfg.put_complete THEN "done_moving" ELSE "idle")

\* _done_moving: dispatch of SUB_DONE.
done_moving_sub_done ==
    /\ npc = "done_moving"
    /\ UNCHANGED <<dsig, movn>>
    /\ RaceCommit(_run_subs(Self, "SUB_DONE"), "done_moving", apc, "req_done")

\* _done_moving: dispatch of _SUB_REQ_DONE with success=True.
done_moving_req_done ==
    /\ npc = "req_done"
    /\ UNCHANGED <<dsig, movn>>
    /\ RaceCommit(_run_subs_req_done(Self, TRUE), "done_moving", apc, "reset")

\* _done_moving: _reset_sub(_SUB_REQ_DONE).
done_moving_reset_sub ==
    /\ npc = "reset"
    /\ UNCHANGED <<dsig, movn>>
    /\ RaceCommit(_reset_sub(Self), "done_moving", apc, "idle")

NextRace ==
    \/ \E p \in PosVals : Positioner_move(p, FALSE, "none")
    \/ \E p \in PosVals : EpicsMotor_move(p, FALSE, 0, "none")
    \/ \E p \in PosVals : PVPositioner_move_nowait(p, FALSE, "none")
    \/ stop_run_subs
    \/ stop_reset_sub
    \/ \E v \in {0, 1} : race_done_changed(v)
    \/ \E t \in 1..MaxStatus : race_put_callback(t)
    \/ done_moving_sub_done
    \/ done_moving_req_done
    \/ done_moving_reset_sub

SpecRace == Init /\ [][NextRace]_vars

(***************************************************************************)
(* SpecCb: move(wait=False) with or without a moved_cb, which may raise;    *)
(* stop() and the notifications that complete a move.                       *)
(***************************************************************************)

\* The moved_cb argument of move(): absent, a callback that returns, a
\* callback that raises.
CbVals == {"none", "moved_cb", "moved_cb_raises"}

NextCb ==
    \/ \E p \in PosVals, cb \in CbVals : Positioner_move(p, FALSE, cb)
    \/ \E p \in PosVals, cb \in CbVals : EpicsMotor_move(p, FALSE, 0, cb)
    \/ \E p \in PosVals, cb \in CbVals : PVPositioner_move_nowait(p, FALSE, cb)
    \/ stop
    \/ \E v \in {0, 1} : done_changed(v)
    \/ \E t \in 1..MaxStatus : put_callback(t)

SpecCb == Init /\ [][NextCb]_vars

(***************************************************************************)
(* SpecTraj: trajectories.  The application thread calls set_trajectory(),  *)
(* reads next_pos and calls move_next(); the device sends no notification,  *)
(* so a non-blocking move stays pending.  move_next() of a remote-backed    *)
(* positioner is called with wait=False.                                     *)
(***************************************************************************)

\* Points of a trajectory, and the longest trajectory.
TrajPoints == {0, 5}
MaxTrajLen == 2

\* Bound on the reads of next_pos after one set_trajectory().
MaxReads == 4

TrajVals == UNION {[1..n -> TrajPoints] : n \in 0..MaxTrajLen}

\* set_trajectory leaving _followed as it is.
set_trajectory_keeps_followed(s, traj) ==
    [s EXCEPT !._trajectory = [set |-> TRUE, rest |-> traj],
              !.given = traj, !.nreads = 0]

\* set_trajectory: iter(traj) is a fresh iterator over the sequence.
set_trajectory_body(s, traj) ==
    [s EXCEPT !._trajectory = [set |-> TRUE, rest |-> traj],
              !._followed = <<>>,
              !.given = traj, !.nreads = 0]

set_trajectory(traj) ==
    /\ apc = "idle"
    /\ AppCommit(set_trajectory_body(Caller, traj), "set_trajectory", "traj", "idle",
                 "none")

\* The next_pos property without the append to _followed.
next_pos_unrecorded(s) ==
    IF ~s._trajectory.set
    THEN Emit(s, "ValueError")
    ELSE IF s._trajectory.rest = <<>>
         THEN [s EXCEPT !.ret = -1, !.nreads = @ + 1]
         ELSE [s EXCEPT !._trajectory.rest = Tail(@),
                        !.ret = Head(s._trajectory.rest), !.nreads = @ + 1]

\* The next_pos property: next() of the iterator; StopIteration gives None.
next_pos(s) ==
    IF ~s._trajectory.set
    THEN Emit(s, "ValueError")
    ELSE IF s._trajectory.rest = <<>>
         THEN [s EXCEPT !.ret = -1, !.nreads = @ + 1]
         ELSE [s EXCEPT !._trajectory.rest = Tail(@),
                        !._followed = Append(@, Head(s._trajectory.rest)),
                        !.ret = Head(s._trajectory.rest), !.nreads = @ + 1]

\* The application reads next_pos.
read_next_pos ==
    /\ apc = "idle"
    /\ nreads < MaxReads
    /\ AppCommit(next_pos(Caller), "next_pos", "traj", "idle", "none")

\* The test of move_next for the end of the trajectory, as a test for falsity.
move_next_ended_if_falsy(s) == s.ret \in {-1, 0}

\* move_next: 'if pos is None'.
move_next_ended(s) == s.ret = -1

\* move_next(wait=wait, moved_cb=moved_cb): next_pos is read, then move()
\* of the class is called with the point.
move_next(wait, moved_cb) ==
    /\ apc = "idle"
    /\ nreads < MaxReads
    /\ LET s1 == next_pos(Caller)
       IN IF s1.out # <<>>
          THEN AppCommit(s1, "move_next", "traj", "idle", "none")
          ELSE IF move_next_ended(s1)
               THEN AppCommit(s1, "move_next", "traj", "idle", "StopIteration")
               ELSE CASE IsSoft -> Positioner_move_from(s1, s1.ret, wait, moved_cb)
                      [] IsMotor ->
                           ~wait /\ EpicsMotor_move_from(s1, s1.ret, FALSE, 0, moved_cb)
                      [] IsPV ->
                           ~wait /\ PVPositioner_move_nowait_from(s1, s1.ret, FALSE,
                                                                  moved_cb)

NextTraj ==
    \/ \E traj \in TrajVals : set_trajectory(traj)
    \/ read_next_pos
    \/ \E w \in BOOLEAN : move_next(w, "none")

SpecTraj == Init /\ [][NextTraj]_vars

(***************************************************************************)
(* SpecGC: weak references.  A FunctionProxy (ophyd/utils/weak_method.py)   *)
(* over a function or over a bound method of an object; the object may be   *)
(* a positioner registered with the session (ophyd/session/sessionmgr.py),  *)
(* the proxy may be a weakly-held subscriber of a signal.  References are   *)
(* dropped, the proxy is called, the signal dispatches.                     *)
(***************************************************************************)

\* The variables of the positioner, which SpecGC leaves alone.
posvars ==
    <<cfg, _started_moving, _moving, _position, dsig, movn, subs, status, acks,
      apc, npc, unresolved_at_move, scen, timeout, elapsed, done_seen, _limits,
      sp_limits, target, phase, setpoint, last_readback, _trajectory, _followed,
      given, nreads, ret>>

\* The remove_cb argument: none, a callback of the creator, the callback by
\* which a signal's subscribe(weak=True) drops the entry of a dead subscriber.
RemoveCbVals == {"None", "remove_cb", "unsubscribe"}

\* FunctionProxy.__init__ over a method (target and method are weak proxies of
\* the instance and of the function) or over a function (target is None).
FunctionProxy_init(kind, remove_cb, quiet) ==
    [target |-> IF kind = "method" THEN "proxy" ELSE "None", method |-> "proxy",
     remove_cb |-> remove_cb, quiet |-> quiet]

\* The strong references at the start: the name the application holds and,
\* for an object registered with the session, its registry entry
\* (SessionManager._update_registry).
InitGC ==
    /\ cfg = SoftCfg
    /\ _limits = NoLimits
    /\ sp_limits = NoLimits
    /\ phase = "built"
    /\ setpoint = TRUE
    /\ last_readback = ReadbackAtConstruction
    /\ Constructed
    /\ NoError
    /\ NoSession
    /\ \E kind \in {"function", "method"}, rcb \in RemoveCbVals, q \in BOOLEAN :
          /\ wmp = FunctionProxy_init(kind, rcb, q)
          /\ referent \in
                {[kind |-> kind, refs |-> rs, fn |-> TRUE,
                  subscribed |-> rcb = "unsubscribe",
                  registered |-> "registry" \in rs] :
                    rs \in IF kind = "method"
                           THEN {{"name"}, {"name", "registry"}}
                           ELSE {{"name"}}}
          /\ sig_subs = (IF rcb = "unsubscribe" THEN <<"wmp">> ELSE <<>>)
    /\ removed = 0

\* The proxy with what its callbacks change: the count of remove_cb calls and
\* the signal's subscriber list.
Proxy == [wmp |-> wmp, removed |-> removed, sig_subs |-> sig_subs]

\* The call remove_cb(self): the creator's callback is counted; the signal's
\* callback also removes the proxy from the subscriber list.
remove_cb_call(w) ==
    [w EXCEPT !.removed = @ + 1,
              !.sig_subs = IF w.wmp.remove_cb = "unsubscribe"
                           THEN SelectSeq(@, LAMBDA e : e # "wmp")
                           ELSE @]

\* FunctionProxy._deleted without the call of remove_cb.
FunctionProxy_deleted_uncalled(w) ==
    [w EXCEPT !.wmp.target = "None", !.wmp.method = "None",
              !.wmp.remove_cb = "None"]

\* FunctionProxy._deleted leaving remove_cb set.
FunctionProxy_deleted_keeps_remove_cb(w) ==
    LET w1 == [w EXCEPT !.wmp.target = "None", !.wmp.method = "None"]
    IN IF w1.wmp.remove_cb # "None" THEN remove_cb_call(w1) ELSE w1

\* FunctionProxy._deleted, the callback of both weak proxies.
FunctionProxy_deleted(w) ==
    LET w1 == [w EXCEPT !.wmp.target = "None", !.wmp.method = "None"]
    IN IF w1.wmp.remove_cb # "None"
       THEN [remove_cb_call(w1) EXCEPT !.wmp.remove_cb = "None"]
       ELSE w1

\* FunctionProxy.__call__: what the call does, in order.  A call through a
\* weak proxy whose referent is gone raises ReferenceError, as does the test
\* for method None; ReferenceError is raised again unless the proxy is quiet.
FunctionProxy_call(wm, r) ==
    IF /\ wm.method # "None"
       /\ r.fn
       /\ wm.target # "None" => r.refs # {}
    THEN <<"invoked", "return_value">>
    ELSE IF ~wm.quiet THEN <<"ReferenceError">> ELSE <<"return_None">>

GCCommit(w, r, events) ==
    /\ wmp' = w.wmp
    /\ removed' = w.removed
    /\ sig_subs' = w.sig_subs
    /\ referent' = r
    /\ out' = events
    /\ UNCHANGED <<posvars, errvars, sesvars>>

\* A strong reference is dropped; when it was the last one the referent is
\* destroyed and the callback of its weak proxy runs.
Unreference(w, r, ref) ==
    LET r1 == [r EXCEPT !.refs = @ \ {ref},
                        !.fn = IF r.kind = "function" THEN r.refs \ {ref} # {} ELSE @]
    IN IF r.refs # {} /\ r1.refs = {}
       THEN [w |-> FunctionProxy_deleted(w), r |-> r1]
       ELSE [w |-> w, r |-> r1]

\* del of the application's name for the function or the object.
del_name ==
    /\ "name" \in referent.refs
    /\ op' = "del_name"
    /\ LET u == Unreference(Proxy, referent, "name")
       IN GCCommit(u.w, u.r, <<>>)

\* SessionManager.__delitem__ losing no registry entry.
SessionManager_delitem_keeps_entry(r) == r.refs

\* SessionManager.__delitem__(name): the references left; the registry entry
\* of the object with that name is deleted.
SessionManager_delitem_refs(r) == r.refs \ {"registry"}

\* del session_mgr[name] for the name of the object: KeyError when neither
\* the registry nor the user namespace has it.
SessionManager_delitem ==
    /\ referent.kind = "method"
    /\ op' = "delitem"
    /\ IF "registry" \in referent.refs
       THEN LET left == SessionManager_delitem_refs(referent)
                u == IF left = referent.refs
                     THEN [w |-> Proxy, r |-> referent]
                     ELSE Unreference(Proxy, referent, "registry")
            IN GCCommit(u.w, u.r, <<>>)
       ELSE GCCommit(Proxy, referent, <<"KeyError">>)

\* The class of a destroyed instance goes away, and its function with it: the
\* callback of the weak proxy of the function runs.
del_class ==
    /\ referent.kind = "method"
    /\ referent.refs = {}
    /\ referent.fn
    /\ op' = "del_class"
    /\ GCCommit(FunctionProxy_deleted(Proxy), [referent EXCEPT !.fn = FALSE], <<>>)

\* The application calls the proxy.
call ==
    /\ op' = "call"
    /\ GCCommit(Proxy, referent, FunctionProxy_call(wmp, referent))

\* A dispatch of the signal: every subscriber of the list is called; the
\* dispatcher logs an exception of a subscriber and goes on.
dispatch ==
    /\ op' = "dispatch"
    /\ LET events == IF "wmp" \in Range(sig_subs)
                     THEN FunctionProxy_call(wmp, referent)
                     ELSE <<>>
       IN GCCommit(Proxy, referent,
                   IF events = <<"ReferenceError">>
                   THEN <<"exception_logged">>
                   ELSE events)

NextGC ==
    \/ del_name
    \/ SessionManager_delitem
    \/ del_class
    \/ call
    \/ dispatch

SpecGC == InitGC /\ [][NextGC]_vars

(***************************************************************************)
(* SpecErr: the error property of a MoveStatus.  A future of an EpicsMotor  *)
(* with some target; the readback changes, the future is finished, error    *)
(* is read.  Targets and positions are small naturals.                      *)
(***************************************************************************)

\* Targets of the move the future belongs to.
ErrTargets == 0..4

\* MoveStatus.__init__ with its target.
MoveStatus_init(tgt) ==
    [target |-> tgt, done |-> FALSE, success |-> FALSE, finish_pos |-> -1,
     calls |-> 0]

\* MoveStatus.error: np.array(finish_pos) - np.array(self.target), finish_pos
\* being self.finish_pos unless that is None, self.pos.position then.
MoveStatus_error(st, position) ==
    (IF st.finish_pos # -1 THEN st.finish_pos ELSE position) - st.target

InitErr ==
    /\ cfg = MotorCfg
    /\ _limits = NoLimits
    /\ sp_limits = NoLimits
    /\ phase = "built"
    /\ setpoint = TRUE
    /\ last_readback = ReadbackAtConstruction
    /\ Constructed
    /\ NoProxy
    /\ NoSession
    /\ \E tgt \in ErrTargets : fut = MoveStatus_init(tgt)
    /\ error = [read |-> FALSE, value |-> 0]

\* The future's _finished runs (a dispatch of _SUB_REQ_DONE).
MoveStatus_finish(success) ==
    /\ ~fut.done
    /\ fut' = MoveStatus_finished(fut, success, _position)
    /\ error' = [read |-> FALSE, value |-> 0]
    /\ op' = "_finished"
    /\ out' = <<>>
    /\ UNCHANGED <<posvars, gcvars, sesvars>>

\* The application reads the error property.
read_error ==
    /\ error' = [read |-> TRUE, value |-> MoveStatus_error(fut, _position)]
    /\ op' = "error"
    /\ out' = <<>>
    /\ UNCHANGED <<fut, posvars, gcvars, sesvars>>

\* The readback changes; the value read before says nothing any more.
readback_moves(value) ==
    /\ error.read = FALSE
    /\ pos_changed(value)

NextErr ==
    \/ \E success \in BOOLEAN : MoveStatus_finish(success)
    \/ read_error
    \/ \E v \in ReadbackVals : readback_moves(v)

SpecErr == InitErr /\ [][NextErr]_vars

(***************************************************************************)
(* SpecOrder: move(wait=False) of an EpicsMotor taken statement by          *)
(* statement: the notification thread runs between the write of the         *)
(* setpoint and the call of Positioner.move.  The moves of the other        *)
(* classes subscribe before they write and are taken whole.                 *)
(***************************************************************************)

\* EpicsMotor.move(wait=False) up to the return of the put.
EpicsMotor_move_put(position) ==
    /\ IsMotor /\ CanMoveNowait
    /\ AppCommitT(Emit([Caller EXCEPT !._started_moving = FALSE], "put_setpoint"),
                  "move_nowait_put", "move", "motor_put_nowait", "none", 0, 0,
                  position)

\* EpicsMotor.move(wait=False) from the call of Positioner.move on.
EpicsMotor_move_rest ==
    /\ apc = "motor_put_nowait"
    /\ AppCommit(Positioner_move_nowait(Positioner_move_enter(Self), 0, "none"),
                 "move_nowait", "cont", "idle", "none")

NextOrder ==
    \/ \E p \in PosVals : Positioner_move(p, FALSE, "none")
    \/ \E p \in PosVals : EpicsMotor_move_put(p)
    \/ EpicsMotor_move_rest
    \/ \E p \in PosVals : PVPositioner_move_nowait(p, FALSE, "none")
    \/ stop
    \/ \E v \in {0, 1} : done_changed(v)
    \/ \E t \in 1..MaxStatus : put_callback(t)

SpecOrder == Init /\ [][NextOrder]_vars

(***************************************************************************)
(* SpecChain: move(wait=False) with a moved_cb that starts the next move    *)
(* from inside the completion dispatch.                                     *)
(***************************************************************************)

NextChain ==
    \/ \E p \in PosVals : Positioner_move(p, FALSE, "moved_cb_moves")
    \/ \E p \in PosVals : EpicsMotor_move(p, FALSE, 0, "moved_cb_moves")
    \/ \E p \in PosVals : PVPositioner_move_nowait(p, FALSE, "moved_cb_moves")
    \/ stop
    \/ \E v \in {0, 1} : done_changed(v)
    \/ \E t \in 1..MaxStatus : put_callback(t)

SpecChain == Init /\ [][NextChain]_vars

(***************************************************************************)
(* SpecBusy: move(wait=True, timeout=1) called while the done signal        *)
(* reports a motion under way (done signal present, no put completion).     *)
(***************************************************************************)

InitBusy == Init /\ cfg.done /\ ~cfg.put_complete

\* The done signal reports a motion.
Busy == dsig # cfg.done_val

EpicsMotor_move_busy(position) ==
    Busy /\ EpicsMotor_move(position, TRUE, 1, "none")

PVPositioner_move_wait_busy(position) ==
    Busy /\ PVPositioner_move_wait(position, 1)

NextBusy ==
    \/ \E p \in PosVals : EpicsMotor_move_busy(p)
    \/ \E p \in PosVals : PVPositioner_move_wait_busy(p)
    \/ EpicsMotor_put_done
    \/ PVPositioner_put_sp_done
    \/ PVPositioner_put_act_done
    \/ Positioner_move_started
    \/ Positioner_move_finished
    \/ Positioner_move_poll
    \/ \E v \in {0, 1} : done_changed(v)
    \/ movn_changed

SpecBusy == InitBusy /\ [][NextBusy]_vars

(***************************************************************************)
(* SpecOnce: moves of both kinds, blocking and not, the non-blocking ones   *)
(* with or without a moved_cb, with stop and the completion notifications.  *)
(***************************************************************************)

OnceCbVals == {"none", "moved_cb"}

NextOnce ==
    \/ \E p \in PosVals, w \in BOOLEAN, cb \in OnceCbVals : Positioner_move(p, w, cb)
    \/ \E p \in PosVals, w \in BOOLEAN, cb \in OnceCbVals : EpicsMotor_move(p, w, 1, cb)
    \/ EpicsMotor_put_done
    \/ \E p \in PosVals : PVPositioner_move_wait(p, 1)
    \/ PVPositioner_put_sp_done
    \/ PVPositioner_put_act_done
    \/ PVPositioner_pc_put_done
    \/ PVPositioner_settle_done
    \/ Positioner_move_started
    \/ Positioner_move_finished
    \/ Positioner_move_poll
    \/ \E p \in PosVals, cb \in OnceCbVals : PVPositioner_move_nowait(p, FALSE, cb)
    \/ stop
    \/ \E v \in {0, 1} : done_changed(v)
    \/ \E t \in 1..MaxStatus : put_callback(t)

SpecOnce == Init /\ [][NextOnce]_vars

(***************************************************************************)
(* SpecEcho: the change notifications of the setpoint and of the readback   *)
(* signal of a PVPositioner.                                                *)
(***************************************************************************)

InitEcho == Init /\ IsPV

\* Values the two signals take.
EchoVals == {0, 3, 5}

\* PVPositioner.__init__ subscribing _pos_changed to the readback in every case.
PVPositioner_pos_source_readback == "readback"

\* The signal PVPositioner.__init__ subscribes _pos_changed to.
PVPositioner_pos_source ==
    IF cfg.readback THEN "readback" ELSE "setpoint"

PVPositioner_pos_changed(s, value) == _set_position(s, value)

\* A step of the notification thread delivering a value of a signal.
EchoCommit(s, name, value) ==
    /\ Commit(s)
    /\ op' = name
    /\ target' = value
    /\ scen' = -1
    /\ UNCHANGED <<cfg, dsig, movn, apc, npc, unresolved_at_move, timeout, elapsed,
                   done_seen, _limits, sp_limits, phase, setpoint>>
    /\ UNCHANGED <<gcvars, errvars, sesvars>>

\* The subscribers of the signal sig run for a change to value.
Signal_changed(sig, name, value) ==
    EchoCommit(IF PVPositioner_pos_source = sig
               THEN PVPositioner_pos_changed(Self, value)
               ELSE Self,
               name, value)

\* The setpoint signal changes (every PVPositioner has one).
setpoint_changed(value) ==
    /\ IsPV
    /\ Signal_changed("setpoint", "setpoint_changed", value)

\* The readback signal changes.
readback_changed(value) ==
    /\ IsPV /\ cfg.readback
    /\ Signal_changed("readback", "readback_changed", value)

NextEcho ==
    \/ \E v \in EchoVals : setpoint_changed(v)
    \/ \E v \in EchoVals : readback_changed(v)

SpecEcho == InitEcho /\ [][NextEcho]_vars

(***************************************************************************)
(* SpecSession: the session manager with its registered positioners and run *)
(* engine; SIGINT, exit requests and stop_all().                            *)
(***************************************************************************)

\* Bound on the number of registered positioners.
MaxPositioners == 2

InitSession ==
    /\ cfg = SoftCfg
    /\ _limits = NoLimits
    /\ sp_limits = NoLimits
    /\ phase = "built"
    /\ setpoint = TRUE
    /\ last_readback = ReadbackAtConstruction
    /\ Constructed
    /\ NoProxy
    /\ NoError
    /\ NoSession

\* The session manager's state at the start of a call; raised: an exception
\* is propagating.
Session ==
    [_registry |-> _registry, _run_engine |-> _run_engine,
     stop_calls |-> [i \in DOMAIN _registry |-> 0], exited |-> exited,
     raised |-> FALSE, out |-> <<>>]

SessionCommit(s, name) ==
    /\ _registry' = s._registry
    /\ _run_engine' = s._run_engine
    /\ stop_calls' = s.stop_calls
    /\ exited' = s.exited
    /\ out' = s.out
    /\ op' = name
    /\ UNCHANGED <<posvars, gcvars, errvars>>

\* RunEngine.stop(): the run is not running afterwards.
RunEngine_stop(s) == Emit([s EXCEPT !._run_engine = "stopped"], "run_stop")

\* stop() of the i-th positioner, called by stop_all: PVPositioner.stop raises
\* RuntimeError without a stop signal, the other stop() methods return.
Positioner_stop_called(s, i) ==
    LET s1 == [s EXCEPT !.stop_calls[i] = @ + 1]
    IN IF s._registry[i].has_stop
       THEN Emit(s1, "Stopped")
       ELSE [Emit(s1, "RuntimeError") EXCEPT !.raised = TRUE]

RECURSIVE stop_all_loop(_, _)
\* The loop of stop_all over the positioners in the order of their names,
\* from the i-th on.
stop_all_loop(s, i) ==
    IF i > Len(s._registry) \/ s.raised
    THEN s
    ELSE stop_all_loop(IF s._registry[i].moving THEN Positioner_stop_called(s, i) ELSE s,
                       i + 1)

stop_all_from(s) ==
    stop_all_loop(IF s._run_engine # "None" THEN RunEngine_stop(s) ELSE s, 1)

\* The application calls stop_all().
stop_all ==
    /\ ~exited
    /\ SessionCommit(stop_all_from(Session), "stop_all")

\* SIGINT arrives.
sigint_hdlr ==
    /\ ~exited
    /\ LET s1 == stop_all_from(Session)
       IN SessionCommit(IF s1.raised THEN s1 ELSE Emit(s1, "orig_sigint_hdlr"),
                        "sigint_hdlr")

\* The user asks IPython to exit.
_ask_exit ==
    /\ ~exited
    /\ IF _run_engine # "None" /\ _run_engine = "running"
       THEN LET s1 == stop_all_from(Session)
            IN SessionCommit(IF s1.raised THEN s1 ELSE RunEngine_stop(s1), "_ask_exit")
       ELSE SessionCommit([Emit(Session, "ipy_exit") EXCEPT !.exited = TRUE],
                          "_ask_exit")

\* register() of a positioner whose name sorts k-th among the registered ones.
register_positioner(k, has_stop) ==
    /\ ~exited
    /\ Len(_registry) < MaxPositioners
    /\ k \in 1..(Len(_registry) + 1)
    /\ LET reg == SubSeq(_registry, 1, k - 1)
                      \o <<[moving |-> FALSE, has_stop |-> has_stop]>>
                      \o SubSeq(_registry, k, Len(_registry))
       IN SessionCommit([Session EXCEPT !._registry = reg,
                                        !.stop_calls = [i \in DOMAIN reg |-> 0]],
                        "register")

\* register() of a run engine: the first one is kept.
register_run_engine ==
    /\ ~exited
    /\ SessionCommit([Session EXCEPT !._run_engine =
                          IF @ = "None" THEN "stopped" ELSE @],
                     "register_run")

\* The registered run engine starts a run, or its run ends by itself.
run_changed ==
    /\ ~exited
    /\ _run_engine # "None"
    /\ SessionCommit([Session EXCEPT !._run_engine =
                          IF @ = "running" THEN "stopped" ELSE "running"],
                     "run_changed")

\* The i-th positioner starts or ends a motion.
moving_changed(i) ==
    /\ ~exited
    /\ i \in DOMAIN _registry
    /\ SessionCommit([Session EXCEPT !._registry[i].moving = ~@], "moving_changed")

NextSession ==
    \/ stop_all
    \/ sigint_hdlr
    \/ _ask_exit
    \/ \E k \in 1..MaxPositioners, hs \in BOOLEAN : register_positioner(k, hs)
    \/ register_run_engine
    \/ run_changed
    \/ \E i \in 1..MaxPositioners : moving_changed(i)

SpecSession == InitSession /\ [][NextSession]_vars

(***************************************************************************)
(* Properties.                                                             *)
(***************************************************************************)

Writes ==
    {"put_setpoint", "put_setpoint_wait", "put_setpoint_cb",
     "put_actuate", "put_actuate_wait", "put_actuate_cb"}

\* Index of the first write to the setpoint or actuate signal in seq.
FirstWrite(seq) ==
    IF \E i \in DOMAIN seq : seq[i] \in Writes
    THEN CHOOSE i \in DOMAIN seq :
            seq[i] \in Writes /\ \A j \in 1..(i - 1) : seq[j] \notin Writes
    ELSE Len(seq) + 1

\* The steps the application thread takes inside a move() call.
MoveSteps ==
    {"move_wait", "move_nowait", "put_done", "put_failed", "settle_done",
     "poll_started", "poll_finished", "poll", "timeout"}

\* The last step was a move() call returning normally.
MoveReturned ==
    \/ op \in {"move_nowait", "poll_finished"}
    \/ IsSoft /\ op = "move_wait"

PutCompleteNoDone == IsPV /\ ~cfg.done /\ cfg.put_complete

\* C1: a future that is unresolved when a second move() is called is failed
\* (done, success = false) by that call, whatever the class and whether the
\* second move waits or not, and no step of the second move resolves it with
\* success = true.
C1_SecondMoveFailsPending ==
    \A i \in unresolved_at_move :
        /\ (op \in MoveSteps /\ "REQ_DONE_TRUE" \in Range(out))
              => ~(status[i].done /\ status[i].success)
        /\ MoveReturned => (status[i].done /\ ~status[i].success)

\* C2: in every move path of PVPositioner and EpicsMotor, a move() called while
\* a completion is pending dispatches _SUB_REQ_DONE with success = false before
\* its first write to the setpoint or actuate signal.
C2_FailBeforeFirstWrite ==
    (~IsSoft /\ op \in {"move_wait", "move_nowait"} /\ unresolved_at_move # {})
        => First(out, "REQ_DONE_FALSE") < FirstWrite(out)

\* C3: under any interleaving of the two threads, _finished of a future runs at
\* most once, and once a future is done its success and finish_pos never change.
C3_FinishedAtMostOnce ==
    [][\A i \in DOMAIN status :
          status'[i].held =>
             /\ status'[i].calls <= 1
             /\ status[i].done =>
                   /\ status'[i].done
                   /\ status'[i].success = status[i].success
                   /\ status'[i].finish_pos = status[i].finish_pos]_vars

\* C4: stop() called while a future is unresolved leaves that future done with
\* success = false, in every class and configuration, a PVPositioner without a
\* stop signal included.
C4_StopFailsPending ==
    op = "stop" =>
        \A i \in DOMAIN status :
            status[i].held => (status[i].done /\ ~status[i].success)

\* C5: put completion on, no done signal: move(wait=False) returns a future that
\* is not done; when the callback of its write fires while it is still pending,
\* the future becomes done with success = true and finish_pos = position.
C5_AckResolvesFuture ==
    [][PutCompleteNoDone =>
          /\ op' = "move_nowait" => ~status'[Len(status')].done
          /\ \A t \in DOMAIN status :
                (op' = "put_callback" /\ t \in acks /\ t \notin acks' /\ ~status[t].done)
                   => /\ status'[t].done
                      /\ status'[t].success
                      /\ status'[t].calls = 1
                      /\ status'[t].finish_pos = _position']_vars

\* A write callback has just resolved a pending future at a position the
\* readback reported after construction.
C5_Witness ==
    /\ PutCompleteNoDone
    /\ op = "put_callback"
    /\ "REQ_DONE_TRUE" \in Range(out)
    /\ _position = 5
    /\ \E t \in DOMAIN status :
          status[t].held /\ status[t].success /\ status[t].finish_pos = 5

\* C6: PVPositioner with setpoint, readback and done signals, done_val = 0, put
\* completion off, not moving at construction: after D=1 SUB_START was
\* dispatched once; after R=5 position is 5; after D=0 SUB_DONE was dispatched
\* once and moving is false; no other SUB_START or SUB_DONE is dispatched.
C6_Scenario ==
    (IsPV /\ cfg.done /\ cfg.done_val = 0 /\ ~cfg.put_complete /\ cfg.readback) =>
        /\ scen = 1 => /\ Count(out, "SUB_START") = 1
                       /\ Count(out, "SUB_DONE") = 0
                       /\ moving
        /\ scen = 2 => /\ _position = 5
                       /\ Count(out, "SUB_START") = 0
                       /\ Count(out, "SUB_DONE") = 0
        /\ scen = 3 => /\ Count(out, "SUB_DONE") = 1
                       /\ Count(out, "SUB_START") = 0
                       /\ _position = 5
                       /\ ~moving

\* The scenario has run to its end.
C6_Witness ==
    /\ IsPV /\ cfg.done /\ cfg.done_val = 0 /\ ~cfg.put_complete /\ cfg.readback
    /\ scen = 3
    /\ op = "done_changed"
    /\ dsig = 0

\* C7: with a done signal, every change of it that takes _moving from false to
\* true dispatches SUB_START and (put completion off) every change that takes
\* it from true to false dispatches SUB_DONE, a second motion without a move()
\* in between included.
C7_EveryTransitionNotified ==
    [][(cfg.done /\ op' = "done_changed") =>
          /\ (~_moving /\ _moving') => "SUB_START" \in Range(out')
          /\ (~cfg.put_complete /\ _moving /\ ~_moving')
                => "SUB_DONE" \in Range(out')]_vars

\* C8: a PVPositioner's _done_moving has one trigger per configuration.  Put
\* completion off: only a done-signal change taking _moving from true to false,
\* never a write callback.  Put completion on: only the acknowledgement of the
\* write (the callback, or the acknowledged blocking put of _move_wait_pc);
\* a done-signal change dispatches no SUB_DONE and resolves nothing.
C8_OneCompletionTrigger ==
    [][IsPV =>
          /\ ("SUB_DONE" \in Range(out') \/ "REQ_DONE_TRUE" \in Range(out')) =>
                IF cfg.put_complete
                THEN op' \in {"put_callback", "put_done", "settle_done"}
                ELSE op' = "done_changed" /\ _moving /\ ~_moving'
          /\ (~cfg.put_complete /\ op' = "put_callback") =>
                status' = status /\ subs' = subs
          /\ (cfg.put_complete /\ op' = "done_changed") =>
                status' = status /\ subs' = subs]_vars

\* Put completion on: the done signal has reported the end of the motion while
\* a future is pending, and the future is still pending.
C8_Witness ==
    /\ IsPV /\ cfg.done /\ cfg.put_complete
    /\ op = "done_changed"
    /\ _started_moving /\ ~_moving
    /\ subs # <<>>
    /\ \E i \in DOMAIN status : status[i].held /\ ~status[i].done

\* C9: moving = true implies a move that was started and has not completed: with
\* put completion on and no done signal, moving is false unless a write is
\* unacknowledged or a blocking move is under way.
C9_MovingImpliesMoveInFlight ==
    PutCompleteNoDone => (moving => (acks # {} \/ apc # "idle"))

\* C10: put completion on, no done signal: every move, blocking or not, the
\* first and every later one, sets _started_moving and dispatches SUB_START
\* exactly once before its write.
C10_SyntheticStartEveryMove ==
    (PutCompleteNoDone /\ op \in {"move_wait", "move_nowait"}) =>
        /\ _started_moving
        /\ Count(out, "SUB_START") = 1
        /\ First(out, "SUB_START") < FirstWrite(out)

TimeoutErrors ==
    {"TimeoutError", "TimeoutError_no_motion", "TimeoutError_no_motion_pc",
     "TimeoutError_still_moving_pc"}

\* The steps of a move(wait=True) call.
BlockingMoveSteps == MoveSteps \ {"move_nowait"}

\* The last step was a move(wait=True) call raising a timeout error.
TimeoutRaised == op \in BlockingMoveSteps /\ Range(out) \cap TimeoutErrors # {}

\* The last step was a move(wait=True) call raising because a write failed.
WriteFailed == op \in BlockingMoveSteps /\ "WriteError" \in Range(out)

\* Index in out of the error the last step raised (errors end a step).
RaisedAt == Len(out)

\* C11: when move(wait=True) of a positioner with a stop signal ends in a
\* timeout error or a failed write, stop() has run before the error reaches the
\* caller: the stop signal was written and _SUB_REQ_DONE dispatched with
\* success = false in the step that raises.
C11_StopBeforeError ==
    ((TimeoutRaised \/ WriteFailed) /\ (IsMotor \/ (IsPV /\ cfg.stop))) =>
        /\ First(out, "put_stop") < RaisedAt
        /\ First(out, "REQ_DONE_FALSE") < RaisedAt

\* C12: when a write of _move_async fails (the put raises) in move(wait=False)
\* of a PVPositioner, the future created by that call is resolved with
\* success = false by the time move() is left.
C12_NowaitFailureResolvesFuture ==
    (IsPV /\ op = "move_nowait" /\ "WriteError" \in Range(out)) =>
        /\ status[Len(status)].done
        /\ ~status[Len(status)].success

\* C13: in move(wait=True) a timeout <= 0 disables the deadline, so that no
\* step of the call raises a timeout error; with timeout > 0 a turn of a
\* polling loop raises exactly when the elapsed time exceeds the timeout.
C13_NonPositiveTimeoutDisables ==
    [][(apc # "idle" /\ op' \in BlockingMoveSteps) =>
          /\ timeout <= 0 => Range(out') \cap TimeoutErrors = {}
          /\ (timeout > 0 /\ op' \in {"poll", "timeout"}) =>
                (elapsed + 1 > timeout <=> Range(out') \cap TimeoutErrors # {})]_vars

\* The time since the blocking move() was called at which the step that is
\* being taken ends: a turn of a polling loop sleeps once.
TimeOfStep == IF op' \in {"poll", "timeout"} THEN elapsed + 1 ELSE elapsed

\* C14: with a done signal that has not changed since move(wait=True, timeout=T),
\* T > 0, was called (and writes that are acknowledged), the call does not
\* return normally and does not raise its timeout error before T has elapsed.
C14_TimeoutNotBeforeDeadline ==
    [][(apc # "idle" /\ cfg.done /\ ~done_seen /\ timeout > 0
           /\ op' \in BlockingMoveSteps \ {"put_failed"}) =>
          /\ op' # "poll_finished"
          /\ Range(out') \cap TimeoutErrors # {} => TimeOfStep > timeout]_vars

\* The writes to the setpoint and actuate signals of the last step, in order.
WritesOf(seq) == SelectSeq(seq, LAMBDA e : e \in Writes)

\* C15: every path of PVPositioner.move writes the same way.  With an actuate
\* signal: one setpoint write that asks for no acknowledgement, then one
\* actuate write that carries the acknowledgement (blocking) or the callback.
\* Without one: one setpoint write that carries the acknowledgement or the
\* callback.  No later step of the call writes again.
C15_UniformWriteChoreography ==
    IsPV =>
        /\ (op \in {"move_wait", "move_nowait"} /\ "WriteError" \notin Range(out)) =>
              IF cfg.actuate
              THEN WritesOf(out) \in {<<"put_setpoint", "put_actuate_wait">>,
                                      <<"put_setpoint", "put_actuate_cb">>}
              ELSE WritesOf(out) \in {<<"put_setpoint_wait">>, <<"put_setpoint_cb">>}
        /\ op \in MoveSteps \ {"move_wait", "move_nowait"} => WritesOf(out) = <<>>

\* The last step ran the tail of _move_wait_pc: the acknowledged put of a
\* blocking put-completion move returned and, with a done signal, the settle
\* sleep is over.
AfterAcknowledgedWrite ==
    /\ IsPV /\ cfg.put_complete
    /\ op \in {"put_done", "settle_done"}
    /\ apc # "settle"

\* C16: after the acknowledged write of a blocking put-completion move (without
\* a done signal, and with one as well): _started_moving false raises the
\* 'no motion' timeout error; _started_moving true and _moving true raises the
\* 'still moving' timeout error; SUB_DONE and _SUB_REQ_DONE(success=True) are
\* dispatched only when _started_moving is true and _moving is false, and then
\* they are.
C16_PutCompleteOutcome ==
    AfterAcknowledgedWrite =>
        /\ ~_started_moving => out = <<"TimeoutError_no_motion_pc">>
        /\ (_started_moving /\ _moving) => out = <<"TimeoutError_still_moving_pc">>
        /\ ("SUB_DONE" \in Range(out) \/ "REQ_DONE_TRUE" \in Range(out)) =>
              (_started_moving /\ ~_moving)
        /\ (_started_moving /\ ~_moving) =>
              /\ Count(out, "SUB_DONE") = 1
              /\ First(out, "SUB_DONE") < First(out, "REQ_DONE_TRUE")
              /\ Range(out) \cap TimeoutErrors = {}

\* Without a done signal the acknowledged put of a blocking move has returned
\* and the completion was dispatched.
C16_Witness ==
    /\ PutCompleteNoDone
    /\ op = "put_done"
    /\ _started_moving /\ ~_moving
    /\ "REQ_DONE_TRUE" \in Range(out)
    /\ apc = "wait_start"

\* x lies outside the (low_limit, high_limit) the limits property reports.
OutsideLimits(x) == x < limits[1] \/ x > limits[2]

\* C17: PVPositioner.check_value(x) raises a range error for every x outside
\* the (low_limit, high_limit) of the positioner's limits property, raises
\* nothing for x inside them, and writes to no signal.
C17_CheckValueAgainstOwnLimits ==
    op = "check_value" =>
        /\ OutsideLimits(target) <=> out = <<"ValueError">>
        /\ ~OutsideLimits(target) <=> out = <<>>

\* C18: a move() of a PVPositioner whose target lies outside the configured
\* limits raises a range error before it writes to any signal, with wait=True
\* and with wait=False.
C18_MoveChecksLimits ==
    (IsPV /\ op \in {"move_wait", "move_nowait"} /\ OutsideLimits(target)) =>
        /\ WritesOf(out) = <<>>
        /\ "ValueError" \in Range(out)

\* C19: stop() of a PVPositioner without a stop signal raises the
\* unsupported-operation error (RuntimeError) and writes to no signal; with a
\* stop signal it does not raise and writes the stop value to the stop signal
\* once, without waiting, and to no other signal.
C19_StopNeedsStopSignal ==
    (IsPV /\ op = "stop") =>
        IF ~cfg.stop
        THEN out = <<"RuntimeError">>
        ELSE /\ out[1] = "put_stop"
             /\ Count(out, "put_stop") = 1
             /\ "RuntimeError" \notin Range(out)
             /\ WritesOf(out) = <<>>

\* stop() was called on a PVPositioner without a stop signal while a future
\* was subscribed.
C19_Witness ==
    /\ IsPV /\ ~cfg.stop
    /\ op = "stop"
    /\ "RuntimeError" \in Range(out)
    /\ subs # <<>>

\* The step being taken is a stop() call made while no completion is pending.
StopWithNothingPending == apc = "idle" /\ subs = <<>> /\ op' = "stop"

\* The step being taken runs no future's _finished and dispatches neither
\* SUB_DONE nor a successful _SUB_REQ_DONE.
NoCompletionDelivered ==
    /\ \A i \in DOMAIN status : status'[i].held => status'[i] = status[i]
    /\ "SUB_DONE" \notin Range(out')
    /\ "REQ_DONE_TRUE" \notin Range(out')

\* C20 as stated: stop() called with no pending completion does not raise,
\* does not change the position and delivers no completion notification,
\* whatever the positioner.
C20_StopIdempotent ==
    [][StopWithNothingPending =>
          /\ "RuntimeError" \notin Range(out')
          /\ _position' = _position
          /\ NoCompletionDelivered]_vars

\* C20, amended: stop() called with no pending completion changes neither the
\* position nor any future, delivers no completion notification and leaves
\* nothing pending, so that it can be repeated; it does not raise, except on
\* a PVPositioner without a stop signal, where every call raises RuntimeError
\* and writes nothing.
C20_StopIdempotentUnlessUnsupported ==
    [][StopWithNothingPending =>
          /\ _position' = _position
          /\ _moving' = _moving /\ _started_moving' = _started_moving
          /\ NoCompletionDelivered
          /\ subs' = <<>>
          /\ IF IsPV /\ ~cfg.stop
             THEN out' = <<"RuntimeError">>
             ELSE "RuntimeError" \notin Range(out')]_vars

\* stop() has been called on a PVPositioner with a stop signal, away from the
\* initial position, when every future of earlier moves was already resolved.
C20_Witness ==
    /\ IsPV /\ cfg.stop
    /\ op = "stop"
    /\ out = <<"put_stop", "REQ_DONE_FALSE">>
    /\ _position = 5
    /\ status # <<>>
    /\ \A i \in DOMAIN status : status[i] = Discarded

\* What a constructor logs when it creates or subscribes a signal.
SignalSteps ==
    {"add_signal_setpoint", "add_signal_readback", "add_signal_actuate",
     "add_signal_stop", "add_signal_done", "add_signal_egu", "add_signal_movn",
     "subscribe_readback", "subscribe_setpoint", "subscribe_done"}

\* C21: a PVPositioner constructed without setpoint, or an EpicsMotor without
\* record, fails with the configuration error (ValueError) before any signal
\* is created or subscribed; with the argument given construction succeeds,
\* and a PVPositioner with neither done signal nor put completion emits one
\* warning (and no other configuration does).
C21_ConstructionFailsFast ==
    (phase # "new" /\ ~IsSoft) =>
        /\ ~setpoint => (phase = "failed" /\ out = <<"ValueError">>)
        /\ setpoint =>
              /\ phase = "built"
              /\ "ValueError" \notin Range(out)
              /\ "add_signal_setpoint" \in Range(out)
              /\ Count(out, "warning") =
                    (IF IsPV /\ ~cfg.done /\ ~cfg.put_complete THEN 1 ELSE 0)

\* A PVPositioner with neither done signal nor put completion was constructed.
C21_Witness ==
    /\ IsPV /\ setpoint /\ ~cfg.done /\ ~cfg.put_complete
    /\ phase = "built"
    /\ op = "__init__"
    /\ "warning" \in Range(out)
    /\ Range(out) \cap SignalSteps # {}

\* C22: a step in which _done_moving runs dispatches SUB_DONE, then the
\* request-done event with success true, and leaves no request-done
\* subscriber; a done notification that arrives when no request-done
\* subscriber is registered invokes no moved_cb and changes no future.
C22_DoneMovingClearsRequestDone ==
    [][/\ "SUB_DONE" \in Range(out') =>
             /\ "REQ_DONE_TRUE" \in Range(out')
             /\ First(out', "SUB_DONE") < First(out', "REQ_DONE_TRUE")
             /\ subs' = <<>>
       /\ (op' \in {"done_changed", "put_callback"} /\ subs = <<>>) =>
             /\ status' = status
             /\ "moved_cb" \notin Range(out')]_vars

\* A done notification ran _done_moving after stop() had resolved the future
\* of the move: the future still reports the failure, finished once.
C22_Witness ==
    /\ op = "done_changed"
    /\ out = <<"SUB_DONE", "REQ_DONE_TRUE">>
    /\ subs = <<>>
    /\ \E i \in DOMAIN status :
          /\ status[i].held /\ status[i].done
          /\ ~status[i].success /\ status[i].calls = 1

\* C27: a moved_cb is registered just before the future's _finished of the same
\* move; a dispatch of the request-done event runs the _finished of every
\* future registered when it begins, once, whether or not a moved_cb raised,
\* and the handler that dispatched goes on to clear the subscribers.
C27_SubscriberExceptionIsolated ==
    [][/\ \A k \in DOMAIN subs' :
             subs'[k].cb # "status" =>
                 /\ k + 1 \in DOMAIN subs'
                 /\ subs'[k + 1] = [cb |-> "status", id |-> subs'[k].id]
       /\ (Range(out') \cap {"REQ_DONE_TRUE", "REQ_DONE_FALSE"} # {}) =>
             \A k \in DOMAIN subs :
                 subs[k].cb = "status" =>
                     /\ status'[subs[k].id].done
                     /\ status'[subs[k].id].calls = status[subs[k].id].calls + 1
       /\ (IsSoft /\ op' = "move_nowait") =>
             /\ status'[Len(status')].done
             /\ status'[Len(status')].success
       /\ ("exception_logged" \in Range(out')
              /\ op' \in {"done_changed", "put_callback", "stop"}) =>
             /\ subs' = <<>>
             /\ Range(out') \cap {"RuntimeError", "WriteError"} = {}]_vars

\* A done notification dispatched to a moved_cb that raised, and the future
\* of that move is resolved as a success.
C27_Witness ==
    /\ op = "done_changed"
    /\ First(out, "moved_cb") < First(out, "exception_logged")
    /\ \E i \in DOMAIN status :
          /\ status[i].held /\ status[i].done
          /\ status[i].success /\ status[i].calls = 1

\* C23: a step changes the position only by dispatching SUB_READBACK with the
\* new value, a SUB_READBACK dispatch carries the position, so the position is
\* the value of the latest SUB_READBACK (once there was one); on a positioner
\* backed by remote values only a readback (or setpoint echo) notification
\* changes the position or dispatches SUB_READBACK: move() and stop() do not.
C23_PositionFollowsReadback ==
    [][/\ (_position' # _position \/ "SUB_READBACK" \in Range(out')) =>
             /\ "SUB_READBACK" \in Range(out')
             /\ last_readback' = _position'
       /\ last_readback' # -1 => last_readback' = _position'
       /\ (~IsSoft /\ op' # "pos_changed") =>
             /\ _position' = _position
             /\ last_readback' = last_readback
             /\ "SUB_READBACK" \notin Range(out')]_vars

\* A readback notification moved the position of a remote-backed positioner
\* and a later move() or stop() left it there.
C23_Witness ==
    /\ ~IsSoft
    /\ op \in {"move_nowait", "move_wait", "stop"}
    /\ _position = 5
    /\ last_readback = 5

\* The smaller of two numbers.
Min(a, b) == IF a < b THEN a ELSE b

\* C24: after set_trajectory(seq) and n reads of next_pos, followed is the
\* first min(n, len(seq)) elements of seq; a read within the sequence returns
\* the next element; a read past its end returns None, raises nothing and
\* leaves followed as it was.
C24_FollowedIsConsumedPrefix ==
    _trajectory.set =>
        /\ _followed = SubSeq(given, 1, Min(nreads, Len(given)))
        /\ _trajectory.rest = SubSeq(given, Len(_followed) + 1, Len(given))
        /\ op = "next_pos" =>
              /\ out = <<>>
              /\ ret = (IF nreads <= Len(given) THEN given[nreads] ELSE -1)

\* next_pos was read twice past the end of a two-point trajectory.
C24_Witness ==
    /\ op = "next_pos"
    /\ Len(given) = 2
    /\ nreads = 4
    /\ ret = -1
    /\ _followed = given

\* A step that is a call of move_next(): the call failed ("move_next") or went
\* on to move() with the point read from next_pos.
MoveNextStep ==
    op' = "move_next" \/ (op' \in {"move_nowait", "move_wait"} /\ ret' # -2)

\* C25: move_next() on an exhausted trajectory raises StopIteration and does
\* nothing else: no write, no dispatch, position, subscribers and followed
\* unchanged, no unresolved future touched.  On a trajectory with points left
\* it calls move() with the next point: the point is consumed, the soft
\* positioner is at it, a remote-backed positioner has written, and with
\* wait=False a new future is returned.
C25_MoveNextMovesOrFails ==
    [][(MoveNextStep /\ _trajectory.set) =>
          IF _trajectory.rest = <<>>
          THEN /\ op' = "move_next"
               /\ out' = <<"StopIteration">>
               /\ _position' = _position
               /\ subs' = subs
               /\ _followed' = _followed
               /\ Len(status') = Len(status)
               /\ \A i \in DOMAIN status : ~status[i].done => status'[i] = status[i]
          ELSE /\ op' \in {"move_nowait", "move_wait"}
               /\ ret' = Head(_trajectory.rest)
               /\ target' = ret'
               /\ _followed' = Append(_followed, ret')
               /\ "StopIteration" \notin Range(out')
               /\ "REQ_DONE_FALSE" \in Range(out')
               /\ IsSoft => _position' = ret'
               /\ ~IsSoft => Range(out') \cap Writes # {}
               /\ op' = "move_nowait" =>
                     /\ Len(status') = Len(status) + 1
                     /\ status'[Len(status')].held]_vars

\* move_next() failed at the end of a trajectory that had points, while the
\* future of an earlier non-blocking move was pending: it still is.
C25_Witness ==
    /\ op = "move_next"
    /\ out = <<"StopIteration">>
    /\ given # <<>>
    /\ _followed = given
    /\ \E i \in DOMAIN status : status[i].held /\ ~status[i].done
    /\ subs # <<>>

\* C26: set_trajectory() restarts the iteration whatever was consumed: followed
\* is empty and the whole new sequence is ahead, so the first read returns its
\* first element; any other step only moves forward in the sequence.
C26_SetTrajectoryRestarts ==
    [][/\ op' = "set_trajectory" =>
             /\ _trajectory'.set
             /\ _trajectory'.rest = given'
             /\ _followed' = <<>>
             /\ nreads' = 0
       /\ op' # "set_trajectory" =>
             /\ given' = given
             /\ Len(_followed') >= Len(_followed)
             /\ SubSeq(_followed', 1, Len(_followed)) = _followed
             /\ Len(_trajectory'.rest) <= Len(_trajectory.rest)
       /\ (op = "set_trajectory" /\ op' = "next_pos" /\ given # <<>>) =>
             /\ ret' = given[1]
             /\ _followed' = <<given[1]>>]_vars

\* The first read after a set_trajectory() that followed a move_next() along
\* an earlier trajectory (which left a future) returned the new first point.
C26_Witness ==
    /\ op = "next_pos"
    /\ nreads = 1
    /\ Len(given) = 2
    /\ ret = given[1]
    /\ _followed = <<given[1]>>
    /\ status # <<>>

\* C28: once the callback of a weakly-held subscriber has lost its last
\* external reference the subscriber list no longer contains its proxy, and a
\* dispatch that follows invokes nothing and raises or logs no error.
C28_DeadWeakSubscriberPruned ==
    (referent.subscribed /\ referent.refs = {}) =>
        /\ "wmp" \notin Range(sig_subs)
        /\ op = "dispatch" => out = <<>>

\* The signal dispatched after the function subscribed weakly was deleted.
C28_Witness ==
    /\ referent.subscribed
    /\ referent.kind = "function"
    /\ referent.refs = {}
    /\ ~referent.fn
    /\ op = "dispatch"
    /\ removed = 1

\* C29: a call of the proxy invokes the target and returns its result while
\* the function, or the method's instance, is alive; afterwards it invokes
\* nothing, raises ReferenceError when the proxy is not quiet and returns None
\* when it is; remove_cb is called at most once.
C29_ProxyForwardsWhileAlive ==
    [][/\ op' = "call" =>
             out' = (IF referent.refs # {}
                     THEN <<"invoked", "return_value">>
                     ELSE IF wmp.quiet THEN <<"return_None">>
                                       ELSE <<"ReferenceError">>)
       /\ removed' \in {removed, removed + 1}
       /\ removed' <= 1
       /\ removed' = 1 => wmp'.remove_cb = "None"]_vars

\* A quiet proxy of a method was called after the instance and then the
\* function were deleted: _deleted ran twice, remove_cb once.
C29_Witness ==
    /\ op = "call"
    /\ out = <<"return_None">>
    /\ referent.kind = "method"
    /\ referent.refs = {}
    /\ ~referent.fn
    /\ removed = 1

\* C30: del session_mgr[name] removes the registry entry of the object; once
\* no strong reference to the object is left the proxies of its handlers are
\* dead and out of the subscriber list of the signal, and a dispatch of the
\* signal invokes no handler.
C30_DeadPositionerDetached ==
    [][/\ (op' = "delitem" /\ "registry" \in referent.refs) =>
             /\ "registry" \notin referent'.refs
             /\ out' = <<>>
       /\ (referent'.kind = "method" /\ referent'.refs = {}) =>
             /\ wmp'.target = "None"
             /\ wmp'.method = "None"
             /\ referent'.subscribed => sig_subs' = <<>>
             /\ op' = "dispatch" => "invoked" \notin Range(out')]_vars

\* The signal dispatched after the name and the registry entry of the object
\* were deleted.
C30_Witness ==
    /\ referent.kind = "method"
    /\ referent.registered
    /\ referent.subscribed
    /\ referent.refs = {}
    /\ op = "dispatch"
    /\ out = <<>>

\* C31: the error read from a future is its target minus the final position
\* once it is done, and its target minus the positioner's position before.
C31_ErrorIsTargetMinusPosition ==
    error.read =>
        error.value = fut.target - (IF fut.done THEN fut.finish_pos ELSE _position)

\* A non-blocking move has written and is not yet completed or cancelled:
\* its call is still under way, or its future is unresolved.
WrittenNowait ==
    \/ apc = "motor_put_nowait"
    \/ apc = "idle" /\ \E i \in DOMAIN status : status[i].held /\ ~status[i].done

\* C32: a completion (a run of _done_moving by the notification thread) that
\* comes after the write of a non-blocking move resolves a future with
\* success: the subscribers were registered before the write.
C32_CompletionNotLost ==
    [][(op' \in {"done_changed", "put_callback"}
           /\ "SUB_DONE" \in Range(out')
           /\ WrittenNowait) =>
          \E i \in DOMAIN status' :
              /\ status'[i].held /\ status'[i].done /\ status'[i].success
              /\ i \in DOMAIN status => ~status[i].done]_vars

\* C33: a write acknowledgement resolves with success only the future of the
\* move whose write it acknowledges.
C33_AckResolvesOwnFuture ==
    [][op' = "put_callback" =>
          \A i \in DOMAIN status :
              (status'[i].held /\ status'[i].success /\ ~status[i].done) =>
                  (i \in acks /\ i \notin acks')]_vars

\* The subscribers of a list that are moved_cb callbacks.
Callbacks(ss) == {k \in DOMAIN ss : ss[k].cb # "status"}

\* C34: when a moved_cb starts a non-blocking move from inside the completion
\* dispatch (a notification step that creates a future), the new future is
\* left subscribed with its moved_cb, unless it is resolved already, and the
\* future and the moved_cb of the completed move have run exactly once.
C34_ChainedMoveKeepsTracking ==
    [][(op' \in {"done_changed", "put_callback"}
           /\ Len(status') = Len(status) + 1) =>
          /\ \/ status'[Len(status')].done
             \/ /\ [cb |-> "status", id |-> Len(status')] \in Range(subs')
                /\ [cb |-> "moved_cb", id |-> Len(status')] \in Range(subs')
          /\ \A k \in DOMAIN subs :
                subs[k].cb = "status" =>
                    status'[subs[k].id].calls = status[subs[k].id].calls + 1
          /\ Count(out', "moved_cb") = Cardinality(Callbacks(subs))]_vars

\* C35: a blocking move with a positive timeout, requested while the done
\* signal reported a motion, does not raise the 'no motion' timeout error once
\* the done signal has reported the motion finished (which it did within the
\* timeout: the error is raised by the first poll after the deadline).
C35_BusyMoveReturns ==
    [][(op' = "timeout" /\ apc = "wait_start" /\ timeout > 0) =>
          ~(done_seen /\ dsig = cfg.done_val)]_vars

\* The step dispatched the request-done event.
RequestDone == Range(out') \cap {"REQ_DONE_TRUE", "REQ_DONE_FALSE"} # {}

\* C36: a registered moved_cb is invoked by the first dispatch of the
\* request-done event after its registration and is no longer registered
\* afterwards; it is invoked with success=true by a completion notification
\* and with success=false by a later move() or a stop() that does not raise;
\* no other step invokes a moved_cb, and the steps of a blocking move()
\* register none.
C36_MovedCbOnce ==
    [][/\ RequestDone =>
             /\ Count(out', "moved_cb") >= Cardinality(Callbacks(subs))
             /\ \A k \in Callbacks(subs') : subs'[k].id > Len(status)
       /\ ~RequestDone =>
             /\ "moved_cb" \notin Range(out')
             /\ \A k \in Callbacks(subs) : k \in Callbacks(subs')
       /\ (Callbacks(subs) # {} /\ op' \in {"done_changed", "put_callback"}) =>
             "REQ_DONE_FALSE" \notin Range(out')
       /\ (Callbacks(subs) # {} /\ op' \notin {"done_changed", "put_callback"}) =>
             "REQ_DONE_TRUE" \notin Range(out')
       /\ (op' = "stop" /\ "RuntimeError" \notin Range(out')) =>
             "REQ_DONE_FALSE" \in Range(out')
       /\ op' \notin {"move_nowait", "done_changed", "put_callback", "stop"} =>
             {subs'[k] : k \in Callbacks(subs')} \subseteq Range(subs)
       /\ Count(out', "moved_cb") <= 1]_vars

\* C37: every move() of a soft positioner returns at once with the position at
\* the target and moving false, having dispatched SUB_READBACK with the target
\* before SUB_DONE; a non-blocking move returns a future that is done, a
\* success, with finish_pos the target; a blocking move creates no future and
\* raises no timeout error.
C37_SoftMoveImmediate ==
    [][(IsSoft /\ op' \in {"move_wait", "move_nowait"}) =>
          /\ apc' = "idle"
          /\ _position' = target'
          /\ ~moving'
          /\ "SUB_DONE" \in Range(out')
          /\ First(out', "SUB_READBACK") < First(out', "SUB_DONE")
          /\ last_readback' = target'
          /\ Range(out') \cap (TimeoutErrors \cup {"WriteError", "RuntimeError"}) = {}
          /\ op' = "move_nowait" =>
                /\ Len(status') = Len(status) + 1
                /\ status'[Len(status')].done
                /\ status'[Len(status')].success
                /\ status'[Len(status')].finish_pos = target'
                /\ status'[Len(status')].calls = 1
          /\ op' = "move_wait" => Len(status') = Len(status)]_vars

\* A soft positioner returned from its second non-blocking move, to 5, with
\* the future resolved at 5.
C37_Witness ==
    /\ IsSoft
    /\ op = "move_nowait"
    /\ target = 5
    /\ _position = 5
    /\ Len(status) = 2
    /\ status[2].held /\ status[2].done /\ status[2].success
    /\ status[2].finish_pos = 5

\* C38: without a readback signal every change notification of the setpoint
\* sets the position to the notified value (and dispatches SUB_READBACK with
\* it); with a readback signal the position follows the readback's
\* notifications and a notification of the setpoint changes nothing.
C38_PositionSource ==
    [][/\ (op' = "setpoint_changed" /\ ~cfg.readback) =>
             /\ _position' = target'
             /\ last_readback' = target'
             /\ out' = <<"SUB_READBACK">>
       /\ (op' = "setpoint_changed" /\ cfg.readback) =>
             /\ _position' = _position
             /\ last_readback' = last_readback
             /\ out' = <<>>
       /\ op' = "readback_changed" =>
             /\ cfg.readback
             /\ _position' = target'
             /\ last_readback' = target'
             /\ out' = <<"SUB_READBACK">>]_vars

\* A PVPositioner without a readback was told of a setpoint of 5 and is at 5.
C38_Witness ==
    /\ IsPV /\ ~cfg.readback
    /\ op = "setpoint_changed"
    /\ target = 5
    /\ _position = 5
    /\ last_readback = 5

\* C39: stop_all(), called directly or by the SIGINT handler, calls stop() once
\* on every registered positioner that is moving and on no other, also when
\* one of those calls raises.
C39_StopAllStopsEveryMoving ==
    [][op' \in {"stop_all", "sigint_hdlr"} =>
          \A i \in DOMAIN _registry :
              stop_calls'[i] = (IF _registry[i].moving THEN 1 ELSE 0)]_vars

\* C40: an exit request while the registered run engine is running calls
\* stop() on every moving positioner, leaves the run stopped and does not
\* exit; an exit request with no run engine registered, or with its run not
\* running, exits and stops nothing.
C40_ExitStopsRunFirst ==
    [][op' = "_ask_exit" =>
          IF _run_engine = "running"
          THEN /\ \A i \in DOMAIN _registry :
                      _registry[i].moving => stop_calls'[i] >= 1
               /\ _run_engine' = "stopped"
               /\ ~exited'
          ELSE /\ exited'
               /\ _run_engine' = _run_engine
               /\ \A i \in DOMAIN _registry : stop_calls'[i] = 0]_vars

====
